---------------------------- MODULE Spec2Model ----------------------------
(***************************************************************************)
(* The PNF widget: WidgetController (the five-question wizard), the part   *)
(* of WidgetView it drives, ClaimLogic and the UTC date utilities.         *)
(*                                                                         *)
(* A Date object is either NULL or Date(t), t its time value.  Every Date  *)
(* the controller holds is a UTC midnight, so time values are counted in   *)
(* whole days since 1970-01-01 (getTime() / 86400000).  A local Date, as   *)
(* parseDate builds it, is the triple <<year, monthIndex, day>> of its     *)
(* local calendar fields, the only fields toUTC reads.                     *)
(* The text of an input field is a record: kind "empty" (''), "blank"      *)
(* (white space only), "garbage" (not YYYY-MM-DD) or "iso" (the text       *)
(* YYYY-MM-DD with the digits y, m, d).                                    *)
(* The page is the one of the README: all five question containers, the    *)
(* result container, the result text and the three inputs exist.           *)
(*                                                                         *)
(* Three specifications: Spec, the wizard of WidgetController; DatesSpec,  *)
(* single calls of the date utilities and of ClaimLogic.calculateCNP;      *)
(* FlowSpec, the wizard of PNFFlow (flow.js with utils.js).                *)
(***************************************************************************)
EXTENDS Integers, Sequences, FiniteSets, TLC

VARIABLES
    lastFilingDate,   \* WidgetController.lastFilingDate
    cpStartDate,      \* WidgetController.cpStartDate
    cpEndDate,        \* WidgetController.cpEndDate
    cnpStartDate,     \* WidgetController.cnpStartDate
    cnpEndDate,       \* WidgetController.cnpEndDate
    inputs,           \* WidgetView.inputs[key].value
    errors,           \* text of the error span of each input
    questions,        \* WidgetView.questions[i] is shown (class active, display block)
    resultVisible,    \* WidgetView.resultEl is shown
    resultClass,      \* result-output--danger / result-output--success on resultEl
    resultHtml,       \* WidgetView.resultTextEl.innerHTML
    showResultArgs,   \* arguments of the latest showResult call
    alertMsg,         \* alert raised by the latest handler ("none": no alert)
    lastOp,           \* the latest handler, what the user entered, the return it took
    flow,             \* the PNFFlow instance of flow.js (NULL: none constructed)
    call              \* the latest call of a date or ClaimLogic function (NULL: none)

vars == <<lastFilingDate, cpStartDate, cpEndDate, cnpStartDate, cnpEndDate,
          inputs, errors, questions, resultVisible, resultClass, resultHtml,
          showResultArgs, alertMsg, lastOp, flow, call>>

ctlVars == <<lastFilingDate, cpStartDate, cpEndDate, cnpStartDate, cnpEndDate>>

-----------------------------------------------------------------------------
(* Dates *)

NULL == <<>>

Date(t) == <<t>>

getTime(date) == date[1]

\* Days from 1970-01-01 to the first day of month monthIndex (0..11) of year.
DayFromYearMonth(year, monthIndex) ==
    LET m   == monthIndex + 1
        y   == IF m <= 2 THEN year - 1 ELSE year
        era == y \div 400
        yoe == y - era * 400
        mp  == (m + 9) % 12
        doy == (153 * mp + 2) \div 5
        doe == yoe * 365 + yoe \div 4 - yoe \div 100 + doy
    IN  era * 146097 + doe - 719468

\* ECMAScript MakeDay: the month index may lie outside 0..11 and the day
\* outside the month; both roll over into the following months.
MakeDay(year, month, date) ==
    LET ym == year + (month \div 12)
        mn == month % 12
    IN  DayFromYearMonth(ym, mn) + date - 1

\* The calendar fields <<year, monthIndex, day>> of a day number.
YearMonthDate(t) ==
    LET z   == t + 719468
        era == z \div 146097
        doe == z - era * 146097
        yoe == (doe - doe \div 1460 + doe \div 36524 - doe \div 146096) \div 365
        doy == doe - (365 * yoe + yoe \div 4 - yoe \div 100)
        mp  == (5 * doy + 2) \div 153
        d   == doy - (153 * mp + 2) \div 5 + 1
        m   == IF mp < 10 THEN mp + 3 ELSE mp - 9
        y   == yoe + era * 400 + (IF m <= 2 THEN 1 ELSE 0)
    IN  <<y, m - 1, d>>

getUTCFullYear(date) == YearMonthDate(getTime(date))[1]

getUTCMonth(date) == YearMonthDate(getTime(date))[2]

getUTCDate(date) == YearMonthDate(getTime(date))[3]

\* new Date(Date.UTC(year, monthIndex, day))
DateUTC(year, monthIndex, day) == Date(MakeDay(year, monthIndex, day))

isValidDateObject(date) == date # NULL

toUTC(localDate) ==
    IF ~isValidDateObject(localDate) THEN NULL
    ELSE DateUTC(localDate[1], localDate[2], localDate[3])

\* addMonthsUTC that clamps to the last day of a shorter target month.
addMonthsUTC_clamped(utcDate, months) ==
    IF ~isValidDateObject(utcDate) THEN NULL
    ELSE LET first == MakeDay(getUTCFullYear(utcDate), getUTCMonth(utcDate) + months, 1)
             next  == MakeDay(getUTCFullYear(utcDate), getUTCMonth(utcDate) + months + 1, 1)
             day   == getUTCDate(utcDate)
         IN  Date(IF first + day - 1 < next THEN first + day - 1 ELSE next - 1)

\* addMonthsUTC that stops at the first day of the following month.
addMonthsUTC_firstOfNext(utcDate, months) ==
    IF ~isValidDateObject(utcDate) THEN NULL
    ELSE LET first == MakeDay(getUTCFullYear(utcDate), getUTCMonth(utcDate) + months, 1)
             next  == MakeDay(getUTCFullYear(utcDate), getUTCMonth(utcDate) + months + 1, 1)
             day   == getUTCDate(utcDate)
         IN  Date(IF first + day - 1 < next THEN first + day - 1 ELSE next)

addMonthsUTC(utcDate, months) ==
    IF ~isValidDateObject(utcDate) THEN NULL
    ELSE Date(MakeDay(getUTCFullYear(utcDate), getUTCMonth(utcDate) + months,
                      getUTCDate(utcDate)))

\* subtractYearsUTC with the sign of years slipped.
subtractYearsUTC_added(utcDate, years) ==
    IF ~isValidDateObject(utcDate) THEN NULL
    ELSE Date(MakeDay(getUTCFullYear(utcDate) + years, getUTCMonth(utcDate),
                      getUTCDate(utcDate)))

\* subtractYearsUTC that clamps Feb 29 to Feb 28 of a common year.
subtractYearsUTC_clamped(utcDate, years) ==
    IF ~isValidDateObject(utcDate) THEN NULL
    ELSE LET first == MakeDay(getUTCFullYear(utcDate) - years, getUTCMonth(utcDate), 1)
             next  == MakeDay(getUTCFullYear(utcDate) - years, getUTCMonth(utcDate) + 1, 1)
             day   == getUTCDate(utcDate)
         IN  Date(IF first + day - 1 < next THEN first + day - 1 ELSE next - 1)

subtractYearsUTC(utcDate, years) ==
    IF ~isValidDateObject(utcDate) THEN NULL
    ELSE Date(MakeDay(getUTCFullYear(utcDate) - years, getUTCMonth(utcDate),
                      getUTCDate(utcDate)))

\* addUTCDate with the setUTCDate call left out: the copy is returned as it is.
addUTCDate_copyOnly(date, days) == Date(getTime(date))

\* date.setUTCDate(date.getUTCDate() + days) on a copy of date
addUTCDate(date, days) ==
    Date(MakeDay(getUTCFullYear(date), getUTCMonth(date), getUTCDate(date) + days))

_isLeapYear(year) == (year % 4 = 0 /\ year % 100 # 0) \/ year % 400 = 0

_getDaysInMonth(year, month) ==
    IF month = 2 THEN (IF _isLeapYear(year) THEN 29 ELSE 28)
    ELSE IF month \in {4, 6, 9, 11} THEN 30
    ELSE 31

emptyText == [kind |-> "empty", y |-> 0, m |-> 0, d |-> 0]

blankText == [kind |-> "blank", y |-> 0, m |-> 0, d |-> 0]

garbageText == [kind |-> "garbage", y |-> 0, m |-> 0, d |-> 0]

isoText(y, m, d) == [kind |-> "iso", y |-> y, m |-> m, d |-> d]

\* value.trim()
trim(value) == IF value.kind = "blank" THEN emptyText ELSE value

\* parseDate as new Date(value) does it: a day beyond the month rolls over.
parseDate_rollover(value) ==
    IF value.kind # "iso" THEN NULL
    ELSE IF value.m < 1 \/ value.m > 12 \/ value.d < 1 \/ value.d > 31 THEN NULL
    ELSE YearMonthDate(MakeDay(value.y, value.m - 1, value.d))

\* parseDate taking every fourth year for a leap year.
parseDate_everyFourthYear(value) ==
    IF value.kind = "empty" THEN NULL
    ELSE IF value.kind # "iso" THEN NULL
    ELSE IF \/ value.y < 1000 \/ value.y > 9999
            \/ value.m < 1 \/ value.m > 12
            \/ value.d < 1 \/ value.d > 31 THEN NULL
    ELSE IF value.d > (IF value.m = 2 /\ value.y % 4 = 0 THEN 29
                       ELSE _getDaysInMonth(value.y, value.m)) THEN NULL
    ELSE <<value.y, value.m - 1, value.d>>

parseDate(value) ==
    IF value.kind = "empty" THEN NULL
    ELSE IF value.kind # "iso" THEN NULL
    ELSE IF \/ value.y < 1000 \/ value.y > 9999
            \/ value.m < 1 \/ value.m > 12
            \/ value.d < 1 \/ value.d > 31 THEN NULL
    ELSE IF value.d > _getDaysInMonth(value.y, value.m) THEN NULL
    ELSE <<value.y, value.m - 1, value.d>>


-----------------------------------------------------------------------------
(* ClaimLogic *)

\* The cutover built with the UTC getters east of Greenwich: a day early.
APRIL_1_2023_UTC_dayEarly == toUTC(<<2023, 2, 31>>)

\* static APRIL_1_2023_UTC = toUTC(new Date(2023, 3, 1))
APRIL_1_2023_UTC == toUTC(<<2023, 3, 1>>)

\* calculateCNP that counts the six months from the start of the claim period.
calculateCNP_fromStart(cpStart, cpEnd) ==
    IF cpStart = NULL \/ cpEnd = NULL THEN NULL
    ELSE LET cnpEnd == addMonthsUTC(cpStart, 6)
         IN  IF cnpEnd = NULL THEN NULL ELSE <<cpStart, cnpEnd>>

\* The record {cnpStart, cnpEnd}, or NULL.
calculateCNP(cpStart, cpEnd) ==
    IF cpStart = NULL \/ cpEnd = NULL THEN NULL
    ELSE LET cnpEnd == addMonthsUTC(cpEnd, 6)
         IN  IF cnpEnd = NULL THEN NULL ELSE <<cpStart, cnpEnd>>

\* isFilingDateRelevant with the assumed CNP end taken exclusive (> for >=).
isFilingDateRelevant_exclusive(filingDate, todayUTC) ==
    IF filingDate = NULL \/ todayUTC = NULL THEN FALSE
    ELSE IF addMonthsUTC(filingDate, 6) = NULL THEN FALSE
    ELSE IF subtractYearsUTC(todayUTC, 3) = NULL THEN FALSE
    ELSE /\ getTime(filingDate) >= getTime(subtractYearsUTC(todayUTC, 3))
         /\ getTime(addMonthsUTC(filingDate, 6)) > getTime(todayUTC)

\* isFilingDateRelevant with no year subtracted for the earliest relevant date.
isFilingDateRelevant_noYears(filingDate, todayUTC) ==
    IF filingDate = NULL \/ todayUTC = NULL THEN FALSE
    ELSE IF addMonthsUTC(filingDate, 6) = NULL THEN FALSE
    ELSE IF subtractYearsUTC(todayUTC, 0) = NULL THEN FALSE
    ELSE /\ getTime(filingDate) >= getTime(subtractYearsUTC(todayUTC, 0))
         /\ getTime(addMonthsUTC(filingDate, 6)) >= getTime(todayUTC)

isFilingDateRelevant(filingDate, todayUTC) ==
    IF filingDate = NULL \/ todayUTC = NULL THEN FALSE
    ELSE IF addMonthsUTC(filingDate, 6) = NULL THEN FALSE
    ELSE IF subtractYearsUTC(todayUTC, 3) = NULL THEN FALSE
    ELSE /\ getTime(filingDate) >= getTime(subtractYearsUTC(todayUTC, 3))
         /\ getTime(addMonthsUTC(filingDate, 6)) >= getTime(todayUTC)

\* isValidClaimPeriod taking a period of no length (<= for <).
isValidClaimPeriod_orEqual(cpStart, cpEnd) ==
    IF cpStart = NULL \/ cpEnd = NULL THEN FALSE
    ELSE getTime(cpStart) <= getTime(cpEnd)

\* isValidClaimPeriod with the comparison turned round (> for <).
isValidClaimPeriod_reversed(cpStart, cpEnd) ==
    IF cpStart = NULL \/ cpEnd = NULL THEN FALSE
    ELSE getTime(cpStart) > getTime(cpEnd)

isValidClaimPeriod(cpStart, cpEnd) ==
    IF cpStart = NULL \/ cpEnd = NULL THEN FALSE
    ELSE getTime(cpStart) < getTime(cpEnd)

-----------------------------------------------------------------------------
(* WidgetView *)

InputKeys == {"lastFiling", "cpStart", "cpEnd"}

QuestionIndexes == 0 .. 4

noHtml == [title |-> "", withDates |-> FALSE]

\* The title of the result and whether the sentence with the two dates is in it.
_generatePNFRequiredHTML(nextClaimPeriod, endOfCNP) ==
    [title |-> "PNF Required.",
     withDates |-> (nextClaimPeriod # NULL /\ endOfCNP # NULL)]

_generateNoPNFRequiredHTML == [title |-> "No PNF Required.", withDates |-> FALSE]

hideAllQuestions == [i \in QuestionIndexes |-> FALSE]

\* showQuestion without the call of hideAllQuestions.
showQuestion_othersKept(index) ==
    /\ questions' = [questions EXCEPT ![index] = TRUE]
    /\ resultVisible' = FALSE
    /\ UNCHANGED <<resultClass, resultHtml, showResultArgs>>

showQuestion(index) ==
    /\ questions' = [hideAllQuestions EXCEPT ![index] = TRUE]
    /\ resultVisible' = FALSE
    /\ UNCHANGED <<resultClass, resultHtml, showResultArgs>>

\* showResult that takes the verdict alone and drops the two dates.
showResult_verdictOnly(isPNFRequired, nextClaimPeriod, endOfCNP) ==
    /\ questions' = hideAllQuestions
    /\ resultClass' = IF isPNFRequired THEN "result-output--danger"
                      ELSE "result-output--success"
    /\ resultHtml' = IF isPNFRequired
                     THEN _generatePNFRequiredHTML(NULL, NULL)
                     ELSE _generateNoPNFRequiredHTML
    /\ resultVisible' = TRUE
    /\ showResultArgs' = [isPNFRequired |-> isPNFRequired,
                          nextClaimPeriod |-> NULL,
                          endOfCNP |-> NULL]

\* showResult with the hideAllQuestions call left out.
showResult_questionsKept(isPNFRequired, nextClaimPeriod, endOfCNP) ==
    /\ UNCHANGED questions
    /\ resultClass' = IF isPNFRequired THEN "result-output--danger"
                      ELSE "result-output--success"
    /\ resultHtml' = IF isPNFRequired
                     THEN _generatePNFRequiredHTML(nextClaimPeriod, endOfCNP)
                     ELSE _generateNoPNFRequiredHTML
    /\ resultVisible' = TRUE
    /\ showResultArgs' = [isPNFRequired |-> isPNFRequired,
                          nextClaimPeriod |-> nextClaimPeriod,
                          endOfCNP |-> endOfCNP]

showResult(isPNFRequired, nextClaimPeriod, endOfCNP) ==
    /\ questions' = hideAllQuestions
    /\ resultClass' = IF isPNFRequired THEN "result-output--danger"
                      ELSE "result-output--success"
    /\ resultHtml' = IF isPNFRequired
                     THEN _generatePNFRequiredHTML(nextClaimPeriod, endOfCNP)
                     ELSE _generateNoPNFRequiredHTML
    /\ resultVisible' = TRUE
    /\ showResultArgs' = [isPNFRequired |-> isPNFRequired,
                          nextClaimPeriod |-> nextClaimPeriod,
                          endOfCNP |-> endOfCNP]

\* The view is left as it is.
viewUnchanged ==
    UNCHANGED <<questions, resultVisible, resultClass, resultHtml, showResultArgs>>

resetInputs(values, inputKeys) ==
    [key \in InputKeys |-> IF key \in inputKeys THEN emptyText ELSE values[key]]

\* What requireDateInput returns (date) and leaves in the input's error span
\* (error), for an input holding inputValue.
requireDateInput(inputValue) ==
    IF trim(inputValue).kind = "empty"
    THEN [date |-> NULL, error |-> "required"]
    ELSE IF parseDate(trim(inputValue)) = NULL
    THEN [date |-> NULL, error |-> "invalid"]
    ELSE [date |-> parseDate(trim(inputValue)), error |-> ""]

-----------------------------------------------------------------------------
(* WidgetController *)

getValidatedUTCDate(inputValue) ==
    LET localDate == requireDateInput(inputValue).date
    IN  IF localDate # NULL THEN toUTC(localDate) ELSE NULL

Op(op, args, rule) == [op |-> op, args |-> args, rule |-> rule]

\* handleQ1Answer with the verdict of the answer "no" inverted.
handleQ1Answer_noPNF(answer) ==
    /\ questions[0]
    /\ lastOp' = Op("handleQ1Answer", <<answer>>, answer)
    /\ alertMsg' = "none"
    /\ UNCHANGED errors
    /\ IF answer = "yes"
       THEN /\ lastFilingDate' = NULL
            /\ cpStartDate' = NULL
            /\ cpEndDate' = NULL
            /\ cnpStartDate' = NULL
            /\ cnpEndDate' = NULL
            /\ inputs' = resetInputs(inputs, {"lastFiling", "cpStart", "cpEnd"})
            /\ showQuestion(1)
       ELSE /\ UNCHANGED ctlVars
            /\ UNCHANGED inputs
            /\ showResult(FALSE, NULL, NULL)

handleQ1Answer(answer) ==
    /\ questions[0]
    /\ lastOp' = Op("handleQ1Answer", <<answer>>, answer)
    /\ alertMsg' = "none"
    /\ UNCHANGED errors
    /\ IF answer = "yes"
       THEN /\ lastFilingDate' = NULL
            /\ cpStartDate' = NULL
            /\ cpEndDate' = NULL
            /\ cnpStartDate' = NULL
            /\ cnpEndDate' = NULL
            /\ inputs' = resetInputs(inputs, {"lastFiling", "cpStart", "cpEnd"})
            /\ showQuestion(1)
       ELSE /\ UNCHANGED ctlVars
            /\ UNCHANGED inputs
            /\ showResult(TRUE, NULL, NULL)

\* handleQ2Next storing the last filing date and leaving the claim period and
\* the CNP as they are.
handleQ2Next_periodKept(lastFilingText) ==
    \E typed \in {[inputs EXCEPT !.lastFiling = lastFilingText]} :
    \E lastFilingDateRaw \in {getValidatedUTCDate(typed.lastFiling)} :
        /\ questions[1]
        /\ alertMsg' = "none"
        /\ errors' = [errors EXCEPT !.lastFiling = requireDateInput(typed.lastFiling).error]
        /\ IF lastFilingDateRaw = NULL
           THEN /\ lastOp' = Op("handleQ2Next", <<lastFilingText>>, "invalidDate")
                /\ inputs' = typed
                /\ UNCHANGED ctlVars
                /\ viewUnchanged
           ELSE /\ lastOp' = Op("handleQ2Next", <<lastFilingText>>, "stored")
                /\ lastFilingDate' = lastFilingDateRaw
                /\ UNCHANGED <<cpStartDate, cpEndDate, cnpStartDate, cnpEndDate>>
                /\ inputs' = resetInputs(typed, {"cpStart", "cpEnd"})
                /\ showQuestion(2)

handleQ2Next(lastFilingText) ==
    \E typed \in {[inputs EXCEPT !.lastFiling = lastFilingText]} :
    \E lastFilingDateRaw \in {getValidatedUTCDate(typed.lastFiling)} :
        /\ questions[1]
        /\ alertMsg' = "none"
        /\ errors' = [errors EXCEPT !.lastFiling = requireDateInput(typed.lastFiling).error]
        /\ IF lastFilingDateRaw = NULL
           THEN /\ lastOp' = Op("handleQ2Next", <<lastFilingText>>, "invalidDate")
                /\ inputs' = typed
                /\ UNCHANGED ctlVars
                /\ viewUnchanged
           ELSE /\ lastOp' = Op("handleQ2Next", <<lastFilingText>>, "stored")
                /\ lastFilingDate' = lastFilingDateRaw
                /\ cpStartDate' = NULL
                /\ cpEndDate' = NULL
                /\ cnpStartDate' = NULL
                /\ cnpEndDate' = NULL
                /\ inputs' = resetInputs(typed, {"cpStart", "cpEnd"})
                /\ showQuestion(2)

\* The if-chain with the before-window rule of the older controller, which
\* also asks for a filing on or after the cutover.
Q3Branch_olderBefore(lastFilingTime, cnpStartTime, cnpEndTime, april1_2023_Time, cpStartTime, threeYearsPriorToCnpEnd) ==
    IF lastFilingTime < cnpStartTime /\ lastFilingTime >= april1_2023_Time
    THEN "before"
    ELSE IF lastFilingTime > cnpEndTime /\ lastFilingTime < april1_2023_Time
    THEN "afterPreCutover"
    ELSE IF /\ lastFilingTime > cnpEndTime
            /\ lastFilingTime >= april1_2023_Time
            /\ cpStartTime < april1_2023_Time
    THEN "afterFollowUp"
    ELSE IF lastFilingTime > cnpEndTime /\ lastFilingTime >= april1_2023_Time
    THEN "afterNoPNF"
    ELSE IF threeYearsPriorToCnpEnd = NULL THEN "windowFailed"
    ELSE IF lastFilingTime < getTime(addUTCDate(threeYearsPriorToCnpEnd, 1))
    THEN "stale"
    ELSE IF cpStartTime < april1_2023_Time THEN "withinFollowUp"
    ELSE "withinNoPNF"

\* The if-chain with the after-window rules taking a filing on the CNP end
\* (>= for >).
Q3Branch_endExclusive(lastFilingTime, cnpStartTime, cnpEndTime, april1_2023_Time, cpStartTime, threeYearsPriorToCnpEnd) ==
    IF lastFilingTime < cnpStartTime THEN "before"
    ELSE IF lastFilingTime >= cnpEndTime /\ lastFilingTime < april1_2023_Time
    THEN "afterPreCutover"
    ELSE IF /\ lastFilingTime >= cnpEndTime
            /\ lastFilingTime >= april1_2023_Time
            /\ cpStartTime < april1_2023_Time
    THEN "afterFollowUp"
    ELSE IF lastFilingTime >= cnpEndTime /\ lastFilingTime >= april1_2023_Time
    THEN "afterNoPNF"
    ELSE IF threeYearsPriorToCnpEnd = NULL THEN "windowFailed"
    ELSE IF lastFilingTime < getTime(addUTCDate(threeYearsPriorToCnpEnd, 1))
    THEN "stale"
    ELSE IF cpStartTime < april1_2023_Time THEN "withinFollowUp"
    ELSE "withinNoPNF"

\* The if-chain with the stale-filing bound taken inclusive (<= for <).
Q3Branch_staleInclusive(lastFilingTime, cnpStartTime, cnpEndTime, april1_2023_Time, cpStartTime, threeYearsPriorToCnpEnd) ==
    IF lastFilingTime < cnpStartTime THEN "before"
    ELSE IF lastFilingTime > cnpEndTime /\ lastFilingTime < april1_2023_Time
    THEN "afterPreCutover"
    ELSE IF /\ lastFilingTime > cnpEndTime
            /\ lastFilingTime >= april1_2023_Time
            /\ cpStartTime < april1_2023_Time
    THEN "afterFollowUp"
    ELSE IF lastFilingTime > cnpEndTime /\ lastFilingTime >= april1_2023_Time
    THEN "afterNoPNF"
    ELSE IF threeYearsPriorToCnpEnd = NULL THEN "windowFailed"
    ELSE IF lastFilingTime <= getTime(addUTCDate(threeYearsPriorToCnpEnd, 1))
    THEN "stale"
    ELSE IF cpStartTime < april1_2023_Time THEN "withinFollowUp"
    ELSE "withinNoPNF"

\* The if-chain without its last statement: the handler returns with nothing
\* shown when no rule applies.
Q3Branch_noLastStatement(lastFilingTime, cnpStartTime, cnpEndTime, april1_2023_Time, cpStartTime, threeYearsPriorToCnpEnd) ==
    IF lastFilingTime < cnpStartTime THEN "before"
    ELSE IF lastFilingTime > cnpEndTime /\ lastFilingTime < april1_2023_Time
    THEN "afterPreCutover"
    ELSE IF /\ lastFilingTime > cnpEndTime
            /\ lastFilingTime >= april1_2023_Time
            /\ cpStartTime < april1_2023_Time
    THEN "afterFollowUp"
    ELSE IF lastFilingTime > cnpEndTime /\ lastFilingTime >= april1_2023_Time
    THEN "afterNoPNF"
    ELSE IF threeYearsPriorToCnpEnd = NULL THEN "windowFailed"
    ELSE IF lastFilingTime < getTime(addUTCDate(threeYearsPriorToCnpEnd, 1))
    THEN "stale"
    ELSE IF cpStartTime < april1_2023_Time THEN "withinFollowUp"
    ELSE "none"

\* The if-chain with the three-year window checked first.
Q3Branch_staleFirst(lastFilingTime, cnpStartTime, cnpEndTime, april1_2023_Time, cpStartTime, threeYearsPriorToCnpEnd) ==
    IF threeYearsPriorToCnpEnd = NULL THEN "windowFailed"
    ELSE IF lastFilingTime < getTime(addUTCDate(threeYearsPriorToCnpEnd, 1))
    THEN "stale"
    ELSE IF lastFilingTime < cnpStartTime THEN "before"
    ELSE IF lastFilingTime > cnpEndTime /\ lastFilingTime < april1_2023_Time
    THEN "afterPreCutover"
    ELSE IF /\ lastFilingTime > cnpEndTime
            /\ lastFilingTime >= april1_2023_Time
            /\ cpStartTime < april1_2023_Time
    THEN "afterFollowUp"
    ELSE IF lastFilingTime > cnpEndTime /\ lastFilingTime >= april1_2023_Time
    THEN "afterNoPNF"
    ELSE IF cpStartTime < april1_2023_Time THEN "withinFollowUp"
    ELSE "withinNoPNF"

\* The if-chain taking a claim period that starts on the cutover for one that
\* starts before it (<= for <).
Q3Branch_cutoverInclusive(lastFilingTime, cnpStartTime, cnpEndTime, april1_2023_Time, cpStartTime, threeYearsPriorToCnpEnd) ==
    IF lastFilingTime < cnpStartTime THEN "before"
    ELSE IF lastFilingTime > cnpEndTime /\ lastFilingTime < april1_2023_Time
    THEN "afterPreCutover"
    ELSE IF /\ lastFilingTime > cnpEndTime
            /\ lastFilingTime >= april1_2023_Time
            /\ cpStartTime <= april1_2023_Time
    THEN "afterFollowUp"
    ELSE IF lastFilingTime > cnpEndTime /\ lastFilingTime >= april1_2023_Time
    THEN "afterNoPNF"
    ELSE IF threeYearsPriorToCnpEnd = NULL THEN "windowFailed"
    ELSE IF lastFilingTime < getTime(addUTCDate(threeYearsPriorToCnpEnd, 1))
    THEN "stale"
    ELSE IF cpStartTime <= april1_2023_Time THEN "withinFollowUp"
    ELSE "withinNoPNF"

\* The if-chain of handleQ3Next on the time values: the return it takes.
Q3Branch(lastFilingTime, cnpStartTime, cnpEndTime, april1_2023_Time, cpStartTime, threeYearsPriorToCnpEnd) ==
    IF lastFilingTime < cnpStartTime THEN "before"
    ELSE IF lastFilingTime > cnpEndTime /\ lastFilingTime < april1_2023_Time
    THEN "afterPreCutover"
    ELSE IF /\ lastFilingTime > cnpEndTime
            /\ lastFilingTime >= april1_2023_Time
            /\ cpStartTime < april1_2023_Time
    THEN "afterFollowUp"
    ELSE IF lastFilingTime > cnpEndTime /\ lastFilingTime >= april1_2023_Time
    THEN "afterNoPNF"
    ELSE IF threeYearsPriorToCnpEnd = NULL THEN "windowFailed"
    ELSE IF lastFilingTime < getTime(addUTCDate(threeYearsPriorToCnpEnd, 1))
    THEN "stale"
    ELSE IF cpStartTime < april1_2023_Time THEN "withinFollowUp"
    ELSE "withinNoPNF"

\* The cascade with the cutover check of the claim period made on the CNP end.
Q3Cascade_cutoverOnEnd(lastFiling, cpStart, cnpStart, cnpEnd) ==
    Q3Branch(getTime(lastFiling), getTime(cnpStart), getTime(cnpEnd),
             getTime(APRIL_1_2023_UTC), getTime(cnpEnd),
             subtractYearsUTC(cnpEnd, 3))

\* The time values handleQ3Next takes of the stored dates, and its if-chain.
Q3Cascade(lastFiling, cpStart, cnpStart, cnpEnd) ==
    Q3Branch(getTime(lastFiling), getTime(cnpStart), getTime(cnpEnd),
             getTime(APRIL_1_2023_UTC), getTime(cpStart),
             subtractYearsUTC(cnpEnd, 3))

\* The return handleQ3Next takes for the dates read from the two inputs.
Q3Rule(cpStartDateRaw, cpEndDateRaw) ==
    IF cpStartDateRaw = NULL \/ cpEndDateRaw = NULL THEN "invalidDate"
    ELSE IF ~isValidClaimPeriod(cpStartDateRaw, cpEndDateRaw) THEN "invalidPeriod"
    ELSE IF lastFilingDate = NULL THEN "missingLastFiling"
    ELSE IF APRIL_1_2023_UTC = NULL THEN "noCutover"
    ELSE IF calculateCNP(cpStartDateRaw, cpEndDateRaw) = NULL THEN "cnpFailed"
    ELSE LET cnp == calculateCNP(cpStartDateRaw, cpEndDateRaw)
         IN  Q3Cascade(lastFilingDate, cpStartDateRaw, cnp[1], cnp[2])

PNFRequiredRules == {"before", "stale"}

NoPNFRequiredRules == {"afterPreCutover", "afterNoPNF", "withinNoPNF"}

FollowUpRules == {"afterFollowUp", "withinFollowUp"}

\* handleQ3Next storing the claim period before its order is checked.
handleQ3Next_storesFirst(cpStartText, cpEndText) ==
    \E typed \in {[inputs EXCEPT !.cpStart = cpStartText, !.cpEnd = cpEndText]} :
    \E cpStartDateRaw \in {getValidatedUTCDate(typed.cpStart)} :
    \E cpEndDateRaw \in {getValidatedUTCDate(typed.cpEnd)} :
    \E cnp \in {calculateCNP(cpStartDateRaw, cpEndDateRaw)} :
    \E rule \in {Q3Rule(cpStartDateRaw, cpEndDateRaw)} :
        /\ questions[2]
        /\ lastOp' = Op("handleQ3Next", <<cpStartText, cpEndText>>, rule)
        /\ inputs' = typed
        /\ errors' = [errors EXCEPT !.cpStart = requireDateInput(typed.cpStart).error,
                                    !.cpEnd = requireDateInput(typed.cpEnd).error]
        /\ UNCHANGED lastFilingDate
        /\ IF rule \in {"invalidDate"}
           THEN UNCHANGED <<cpStartDate, cpEndDate>>
           ELSE cpStartDate' = cpStartDateRaw /\ cpEndDate' = cpEndDateRaw
        /\ IF rule \in {"invalidDate", "invalidPeriod", "missingLastFiling",
                        "noCutover", "cnpFailed"}
           THEN UNCHANGED <<cnpStartDate, cnpEndDate>>
           ELSE cnpStartDate' = cnp[1] /\ cnpEndDate' = cnp[2]
        /\ alertMsg' = CASE rule = "invalidPeriod" -> "periodOrder"
                         [] rule = "missingLastFiling" -> "lastFilingMissing"
                         [] rule = "noCutover" -> "cutoverNotSet"
                         [] rule = "cnpFailed" -> "cnpFailed"
                         [] rule = "windowFailed" -> "windowFailed"
                         [] OTHER -> "none"
        /\ CASE rule \in PNFRequiredRules -> showResult(TRUE, cpStartDateRaw, cnp[2])
             [] rule \in NoPNFRequiredRules -> showResult(FALSE, cpStartDateRaw, cnp[2])
             [] rule \in FollowUpRules -> showQuestion(3)
             [] rule = "missingLastFiling" -> showQuestion(1)
             [] OTHER -> viewUnchanged

handleQ3Next(cpStartText, cpEndText) ==
    \E typed \in {[inputs EXCEPT !.cpStart = cpStartText, !.cpEnd = cpEndText]} :
    \E cpStartDateRaw \in {getValidatedUTCDate(typed.cpStart)} :
    \E cpEndDateRaw \in {getValidatedUTCDate(typed.cpEnd)} :
    \E cnp \in {calculateCNP(cpStartDateRaw, cpEndDateRaw)} :
    \E rule \in {Q3Rule(cpStartDateRaw, cpEndDateRaw)} :
        /\ questions[2]
        /\ lastOp' = Op("handleQ3Next", <<cpStartText, cpEndText>>, rule)
        /\ inputs' = typed
        /\ errors' = [errors EXCEPT !.cpStart = requireDateInput(typed.cpStart).error,
                                    !.cpEnd = requireDateInput(typed.cpEnd).error]
        /\ UNCHANGED lastFilingDate
        /\ IF rule \in {"invalidDate", "invalidPeriod"}
           THEN UNCHANGED <<cpStartDate, cpEndDate>>
           ELSE cpStartDate' = cpStartDateRaw /\ cpEndDate' = cpEndDateRaw
        /\ IF rule \in {"invalidDate", "invalidPeriod", "missingLastFiling",
                        "noCutover", "cnpFailed"}
           THEN UNCHANGED <<cnpStartDate, cnpEndDate>>
           ELSE cnpStartDate' = cnp[1] /\ cnpEndDate' = cnp[2]
        /\ alertMsg' = CASE rule = "invalidPeriod" -> "periodOrder"
                         [] rule = "missingLastFiling" -> "lastFilingMissing"
                         [] rule = "noCutover" -> "cutoverNotSet"
                         [] rule = "cnpFailed" -> "cnpFailed"
                         [] rule = "windowFailed" -> "windowFailed"
                         [] OTHER -> "none"
        /\ CASE rule \in PNFRequiredRules -> showResult(TRUE, cpStartDateRaw, cnp[2])
             [] rule \in NoPNFRequiredRules -> showResult(FALSE, cpStartDateRaw, cnp[2])
             [] rule \in FollowUpRules -> showQuestion(3)
             [] rule = "missingLastFiling" -> showQuestion(1)
             [] OTHER -> viewUnchanged

\* handleQ4Submission with the two answers swapped.
handleQ4Submission_swapped(submissionType) ==
    /\ questions[3]
    /\ lastOp' = Op("handleQ4Submission", <<submissionType>>, submissionType)
    /\ alertMsg' = "none"
    /\ UNCHANGED <<ctlVars, inputs, errors>>
    /\ CASE submissionType = "original" -> showQuestion(4)
         [] submissionType = "amended" -> showResult(FALSE, NULL, NULL)
         [] OTHER -> viewUnchanged

\* handleQ4Submission going back to Q3 on the answer "amended".
handleQ4Submission_backToQ3(submissionType) ==
    /\ questions[3]
    /\ lastOp' = Op("handleQ4Submission", <<submissionType>>, submissionType)
    /\ alertMsg' = "none"
    /\ UNCHANGED <<ctlVars, inputs, errors>>
    /\ CASE submissionType = "amended" -> showQuestion(2)
         [] submissionType = "original" -> showResult(FALSE, NULL, NULL)
         [] OTHER -> viewUnchanged

handleQ4Submission(submissionType) ==
    /\ questions[3]
    /\ lastOp' = Op("handleQ4Submission", <<submissionType>>, submissionType)
    /\ alertMsg' = "none"
    /\ UNCHANGED <<ctlVars, inputs, errors>>
    /\ CASE submissionType = "amended" -> showQuestion(4)
         [] submissionType = "original" -> showResult(FALSE, NULL, NULL)
         [] OTHER -> viewUnchanged

\* handleQ5EverClaimed with the verdict of the other answers inverted.
handleQ5EverClaimed_noPNF(answer) ==
    /\ questions[4]
    /\ lastOp' = Op("handleQ5EverClaimed", <<answer>>, answer)
    /\ UNCHANGED <<ctlVars, errors>>
    /\ IF answer = "yes"
       THEN /\ alertMsg' = "enterEarlierClaim"
            /\ inputs' = resetInputs(inputs, {"lastFiling", "cpStart", "cpEnd"})
            /\ showQuestion(1)
       ELSE /\ alertMsg' = "none"
            /\ UNCHANGED inputs
            /\ showResult(FALSE, NULL, NULL)

\* handleQ5EverClaimed giving the verdict on the answer "no" alone.
handleQ5EverClaimed_noOnly(answer) ==
    /\ questions[4]
    /\ lastOp' = Op("handleQ5EverClaimed", <<answer>>, answer)
    /\ UNCHANGED <<ctlVars, errors>>
    /\ IF answer = "yes"
       THEN /\ alertMsg' = "enterEarlierClaim"
            /\ inputs' = resetInputs(inputs, {"lastFiling", "cpStart", "cpEnd"})
            /\ showQuestion(1)
       ELSE /\ alertMsg' = "none"
            /\ UNCHANGED inputs
            /\ IF answer = "no" THEN showResult(TRUE, NULL, NULL) ELSE viewUnchanged

handleQ5EverClaimed(answer) ==
    /\ questions[4]
    /\ lastOp' = Op("handleQ5EverClaimed", <<answer>>, answer)
    /\ UNCHANGED <<ctlVars, errors>>
    /\ IF answer = "yes"
       THEN /\ alertMsg' = "enterEarlierClaim"
            /\ inputs' = resetInputs(inputs, {"lastFiling", "cpStart", "cpEnd"})
            /\ showQuestion(1)
       ELSE /\ alertMsg' = "none"
            /\ UNCHANGED inputs
            /\ showResult(TRUE, NULL, NULL)

-----------------------------------------------------------------------------
(* utils.js and PNFFlow (flow.js)                                           *)
(*                                                                          *)
(* A Date that utils.js has not yet passed through toUTC carries its time   *)
(* value in hours since 1970-01-01T00:00Z; toUTC returns a UTC midnight,    *)
(* counted in days as above.  The host is the record of its time-zone       *)
(* offset (hours east of Greenwich) and of whether its Date parser takes a  *)
(* day of 29..31 that the month does not have (rolling it over) or not.     *)

\* new Date(year, monthIndex, day): local midnight on a host of that offset.
LocalDate(year, monthIndex, day, offset) ==
    Date(MakeDay(year, monthIndex, day) * 24 - offset)

\* parseDate of utils.js: new Date(value), null when the time value is NaN.
utils_parseDate(value, host) ==
    IF value.kind = "empty" THEN NULL
    ELSE IF value.kind # "iso" THEN NULL
    ELSE IF value.m < 1 \/ value.m > 12 \/ value.d < 1 \/ value.d > 31 THEN NULL
    ELSE IF value.d > _getDaysInMonth(value.y, value.m) /\ ~host.rollsOver THEN NULL
    ELSE Date(MakeDay(value.y, value.m - 1, value.d) * 24)

\* toUTC of utils.js, which reads the UTC fields of its argument.
utils_toUTC(date) ==
    IF ~isValidDateObject(date) THEN NULL
    ELSE LET utcDay == Date(getTime(date) \div 24)
         IN  DateUTC(getUTCFullYear(utcDay), getUTCMonth(utcDay), getUTCDate(utcDay))

\* requireDateInput of utils.js: no trim, no error span.
utils_requireDateInput(inputValue, host) ==
    IF inputValue.kind = "empty" THEN NULL
    ELSE utils_parseDate(inputValue, host)

PNF_REQUIRED == "PNF Required"

NO_PNF_REQUIRED == "No PNF Required"

\* The PNFFlow instance the constructor returns.
PNFFlow_constructor(host) ==
    [host |-> host,
     APRIL_1_2023_UTC |-> utils_toUTC(LocalDate(2023, 3, 1, host.offset)),
     currentQuestionIndex |-> 0,
     questions |-> [i \in QuestionIndexes |-> FALSE],
     resultEl |-> "",
     resultText |-> "",
     inputs |-> [key \in InputKeys |-> emptyText],
     alert |-> "none",
     op |-> Op("constructor", <<>>, "")]

PNFFlow_showQuestion(this, i) ==
    [this EXCEPT !.questions = [hideAllQuestions EXCEPT ![i] = TRUE],
                 !.resultEl = "none",
                 !.currentQuestionIndex = i]

PNFFlow_showResult(this, message) ==
    [this EXCEPT !.questions = hideAllQuestions,
                 !.resultText = message,
                 !.resultEl = "block"]

PNFFlow_resetInputs(this, keys) ==
    [this EXCEPT !.inputs = resetInputs(this.inputs, keys)]

PNFFlow_getValidatedUTCDate(this, inputKey) ==
    LET localDate == utils_requireDateInput(this.inputs[inputKey], this.host)
    IN  IF localDate # NULL THEN utils_toUTC(localDate) ELSE NULL

\* What a handler leaves in the instance: the alert it raised, the handler, its
\* arguments and the return it took.
PNFFlow_done(this, alert, op, args, rule) ==
    [this EXCEPT !.alert = alert, !.op = Op(op, args, rule)]

PNFFlow_init(host) ==
    PNFFlow_done(PNFFlow_showQuestion(PNFFlow_constructor(host), 0),
                 "none", "init", <<>>, "")

PNFFlow_handleQ1(this, answer) ==
    PNFFlow_done(IF answer = "yes" THEN PNFFlow_showQuestion(this, 1)
                 ELSE PNFFlow_showResult(this, PNF_REQUIRED),
                 "none", "handleQ1", <<answer>>, answer)

PNFFlow_handleQ2(this) ==
    IF PNFFlow_getValidatedUTCDate(this, "lastFiling") = NULL
    THEN PNFFlow_done(this, "none", "handleQ2", <<this.inputs.lastFiling>>, "invalidDate")
    ELSE PNFFlow_done(PNFFlow_showQuestion(this, 2), "none", "handleQ2",
                      <<this.inputs.lastFiling>>, "next")

\* The return handleQ3 of PNFFlow takes, for the dates it has read and computed.
PNFFlow_Q3Rule(april1, lastFilingDateUTC, cpStartDateUTC, cpEndDateUTC, cnpEndDateUTC, threeYearsPriorToCnpEndUTC) ==
    IF lastFilingDateUTC = NULL THEN "missingLastFiling"
    ELSE IF cpStartDateUTC = NULL \/ cpEndDateUTC = NULL THEN "invalidDate"
    ELSE IF getTime(cpStartDateUTC) >= getTime(cpEndDateUTC) THEN "invalidPeriod"
    ELSE IF april1 = NULL THEN "noCutover"
    ELSE IF cnpEndDateUTC = NULL THEN "cnpFailed"
    ELSE IF threeYearsPriorToCnpEndUTC = NULL THEN "windowFailed"
    ELSE IF \/ getTime(lastFilingDateUTC) <
                   getTime(addUTCDate(threeYearsPriorToCnpEndUTC, 1))
            \/ getTime(lastFilingDateUTC) > getTime(cnpEndDateUTC)
    THEN "outsideWindow"
    ELSE IF getTime(cpStartDateUTC) < getTime(april1) THEN "followUp"
    ELSE "noPNF"

\* The instance handleQ3 leaves when it takes the return rule.
PNFFlow_Q3Return(this, rule) ==
    LET args == <<this.inputs.cpStart, this.inputs.cpEnd>>
    IN  CASE rule = "missingLastFiling" ->
                 PNFFlow_done(PNFFlow_showQuestion(this, 1), "none", "handleQ3", args, rule)
          [] rule = "invalidDate" ->
                 PNFFlow_done(this, "none", "handleQ3", args, rule)
          [] rule = "invalidPeriod" ->
                 PNFFlow_done(this, "periodOrder", "handleQ3", args, rule)
          [] rule = "noCutover" ->
                 PNFFlow_done(this, "cutoverNotSet", "handleQ3", args, rule)
          [] rule = "cnpFailed" ->
                 PNFFlow_done(this, "cnpFailed", "handleQ3", args, rule)
          [] rule = "windowFailed" ->
                 PNFFlow_done(this, "windowFailed", "handleQ3", args, rule)
          [] rule = "outsideWindow" ->
                 PNFFlow_done(PNFFlow_showResult(this, PNF_REQUIRED), "none",
                              "handleQ3", args, rule)
          [] rule = "followUp" ->
                 PNFFlow_done(PNFFlow_showQuestion(this, 3), "none", "handleQ3", args, rule)
          [] OTHER ->
                 PNFFlow_done(PNFFlow_showResult(this, NO_PNF_REQUIRED), "none",
                              "handleQ3", args, rule)

\* handleQ3 run on the instance this: the instance it leaves is flow'.
PNFFlow_handleQ3(this) ==
    \E lastFilingDateUTC \in {PNFFlow_getValidatedUTCDate(this, "lastFiling")} :
    \E cpStartDateUTC \in {PNFFlow_getValidatedUTCDate(this, "cpStart")} :
    \E cpEndDateUTC \in {PNFFlow_getValidatedUTCDate(this, "cpEnd")} :
    \E cnpEndDateUTC \in {addMonthsUTC(cpEndDateUTC, 6)} :
    \E threeYearsPriorToCnpEndUTC \in {subtractYearsUTC(cnpEndDateUTC, 3)} :
    \E rule \in {PNFFlow_Q3Rule(this.APRIL_1_2023_UTC, lastFilingDateUTC,
                                 cpStartDateUTC, cpEndDateUTC, cnpEndDateUTC,
                                 threeYearsPriorToCnpEndUTC)} :
        flow' = PNFFlow_Q3Return(this, rule)

PNFFlow_handleQ4(this, submissionType) ==
    PNFFlow_done(CASE submissionType = "amended" -> PNFFlow_showQuestion(this, 4)
                   [] submissionType = "original" ->
                          PNFFlow_showResult(this, NO_PNF_REQUIRED)
                   [] OTHER -> this,
                 "none", "handleQ4", <<submissionType>>, submissionType)

PNFFlow_handleQ5(this, answer) ==
    IF answer = "yes"
    THEN PNFFlow_done(
             PNFFlow_showQuestion(
                 PNFFlow_resetInputs(this, {"lastFiling", "cpStart", "cpEnd"}), 1),
             "enterEarlierClaim", "handleQ5", <<answer>>, answer)
    ELSE PNFFlow_done(PNFFlow_showResult(this, PNF_REQUIRED), "none", "handleQ5",
                      <<answer>>, answer)

-----------------------------------------------------------------------------
(* The user *)

\* What the user enters in each input lies at most Spread days from one of
\* the input's anchor dates, or is one of the texts that are no date.
Spread == 1

LastFilingAnchors == {<<2017, 3, 1>>, <<2021, 7, 1>>, <<2023, 4, 1>>, <<2024, 6, 30>>}

CpStartAnchors == {<<2017, 3, 1>>, <<2023, 4, 1>>}

CpEndAnchors == {<<2019, 8, 30>>, <<2023, 12, 30>>}

Near(anchors) ==
    {MakeDay(a[1], a[2] - 1, a[3]) + k : a \in anchors, k \in (0 - Spread) .. Spread}

\* The text YYYY-MM-DD of day number t.
TextOfDay(t) ==
    isoText(YearMonthDate(t)[1], YearMonthDate(t)[2] + 1, YearMonthDate(t)[3])

InvalidTexts ==
    {emptyText, blankText, garbageText, isoText(2023, 2, 30), isoText(2023, 13, 1)}

LastFilingTexts == {TextOfDay(t) : t \in Near(LastFilingAnchors)} \cup InvalidTexts

CpStartTexts == {TextOfDay(t) : t \in Near(CpStartAnchors)} \cup InvalidTexts

\* The end of the claim period may also be typed as the very day of a start.
CpEndTexts ==
    {TextOfDay(t) : t \in Near(CpEndAnchors)}
        \cup {TextOfDay(MakeDay(a[1], a[2] - 1, a[3])) : a \in CpStartAnchors}
        \cup InvalidTexts

\* data-answer / data-everclaimed / data-submission of the clicked element
Answers == {"yes", "no", "Yes", "undefined"}

SubmissionTypes == {"original", "amended", "undefined"}

-----------------------------------------------------------------------------

\* new WidgetView(), new WidgetController(view), controller.init()
Init ==
    /\ lastFilingDate = NULL
    /\ cpStartDate = NULL
    /\ cpEndDate = NULL
    /\ cnpStartDate = NULL
    /\ cnpEndDate = NULL
    /\ inputs = [key \in InputKeys |-> emptyText]
    /\ errors = [key \in InputKeys |-> ""]
    /\ questions = [hideAllQuestions EXCEPT ![0] = TRUE]
    /\ resultVisible = FALSE
    /\ resultClass = ""
    /\ resultHtml = noHtml
    /\ showResultArgs = [isPNFRequired |-> FALSE, nextClaimPeriod |-> NULL,
                         endOfCNP |-> NULL]
    /\ alertMsg = "none"
    /\ lastOp = Op("init", <<>>, "")
    /\ flow = NULL
    /\ call = NULL

Q1 == \E answer \in Answers : handleQ1Answer(answer) /\ UNCHANGED <<flow, call>>

Q2 == \E text \in LastFilingTexts : handleQ2Next(text) /\ UNCHANGED <<flow, call>>

Q3 ==
    \E cpStartText \in CpStartTexts, cpEndText \in CpEndTexts :
        handleQ3Next(cpStartText, cpEndText) /\ UNCHANGED <<flow, call>>

Q4 ==
    \E submissionType \in SubmissionTypes :
        handleQ4Submission(submissionType) /\ UNCHANGED <<flow, call>>

Q5 == \E answer \in Answers : handleQ5EverClaimed(answer) /\ UNCHANGED <<flow, call>>

Next == Q1 \/ Q2 \/ Q3 \/ Q4 \/ Q5

Spec == Init /\ [][Next]_vars

-----------------------------------------------------------------------------
(* The date utilities, the static methods of ClaimLogic and the decision of  *)
(* handleQ3Next, called on their own on arguments of the sets below: one    *)
(* call in a behaviour, or the decision on one last filing date after the   *)
(* other.                                                                   *)

MaxMonths == 12

MaxYears == 4

DateYears == 2023 .. 2024

\* Every day of DateYears.
CallDays == UNION {MakeDay(y, 0, 1) .. MakeDay(y, 11, 31) : y \in DateYears}

\* A Date argument: a UTC midnight of CallDays, or no valid Date.
CallDates == {Date(t) : t \in CallDays} \cup {NULL}

\* The days a claim period starts or ends on.
PeriodDays == {t \in CallDays : YearMonthDate(t)[3] \in {1, 15, 28, 29, 30, 31}}

PeriodDates == {Date(t) : t \in PeriodDays} \cup {NULL}

Call(fn, args, result) == [fn |-> fn, args |-> args, result |-> result]

CallAddMonthsUTC ==
    /\ call = NULL
    /\ \E utcDate \in CallDates, months \in 0 .. MaxMonths :
        /\ call' = Call("addMonthsUTC", <<utcDate, months>>, addMonthsUTC(utcDate, months))
        /\ UNCHANGED <<ctlVars, inputs, errors, questions, resultVisible, resultClass,
                       resultHtml, showResultArgs, alertMsg, lastOp, flow>>

CallSubtractYearsUTC ==
    /\ call = NULL
    /\ \E utcDate \in CallDates, years \in 0 .. MaxYears :
        /\ call' = Call("subtractYearsUTC", <<utcDate, years>>,
                        subtractYearsUTC(utcDate, years))
        /\ UNCHANGED <<ctlVars, inputs, errors, questions, resultVisible, resultClass,
                       resultHtml, showResultArgs, alertMsg, lastOp, flow>>

CallCalculateCNP ==
    /\ call = NULL
    /\ \E cpStart \in PeriodDates, cpEnd \in PeriodDates :
        /\ call' = Call("calculateCNP", <<cpStart, cpEnd>>, calculateCNP(cpStart, cpEnd))
        /\ UNCHANGED <<ctlVars, inputs, errors, questions, resultVisible, resultClass,
                       resultHtml, showResultArgs, alertMsg, lastOp, flow>>

\* The filing dates of isFilingDateRelevant: the period days, and the days
\* around three years before the first day of each month.
FilingDates ==
    PeriodDates \cup
        {Date(getTime(subtractYearsUTC(Date(t), 3)) + k) :
             t \in {d \in PeriodDays : YearMonthDate(d)[3] = 1}, k \in {0 - 1, 0, 1}}

CallIsFilingDateRelevant ==
    /\ call = NULL
    /\ \E filingDate \in FilingDates, todayUTC \in PeriodDates :
        /\ call' = Call("isFilingDateRelevant", <<filingDate, todayUTC>>,
                        isFilingDateRelevant(filingDate, todayUTC))
        /\ UNCHANGED <<ctlVars, inputs, errors, questions, resultVisible, resultClass,
                       resultHtml, showResultArgs, alertMsg, lastOp, flow>>

\* determineQ3Outcome taking a claim period that starts on the cutover for one
\* that starts before it (<= for <).
determineQ3Outcome_cutoverInclusive(lastFilingDateUTC, cpStartDateUTC, cpEndDateUTC) ==
    IF APRIL_1_2023_UTC = NULL THEN NULL
    ELSE IF lastFilingDateUTC = NULL \/ cpStartDateUTC = NULL \/ cpEndDateUTC = NULL
    THEN NULL
    ELSE LET cnpEndDateUTC == addMonthsUTC(cpEndDateUTC, 6)
         IN  IF cnpEndDateUTC = NULL THEN NULL
             ELSE LET threeYearsPriorToCnpEndUTC == subtractYearsUTC(cnpEndDateUTC, 3)
                  IN  IF threeYearsPriorToCnpEndUTC = NULL THEN NULL
                      ELSE LET relevantFilingWindowStartUTC ==
                                   addUTCDate(threeYearsPriorToCnpEndUTC, 1)
                           IN  IF \/ getTime(lastFilingDateUTC)
                                         < getTime(relevantFilingWindowStartUTC)
                                  \/ getTime(lastFilingDateUTC) > getTime(cnpEndDateUTC)
                               THEN [result |-> PNF_REQUIRED]
                               ELSE IF getTime(cpStartDateUTC) <= getTime(APRIL_1_2023_UTC)
                               THEN [nextQuestionIndex |-> 3]
                               ELSE [result |-> NO_PNF_REQUIRED]

\* ClaimLogic.determineQ3Outcome: {result} or {nextQuestionIndex}, or NULL.
determineQ3Outcome(lastFilingDateUTC, cpStartDateUTC, cpEndDateUTC) ==
    IF APRIL_1_2023_UTC = NULL THEN NULL
    ELSE IF lastFilingDateUTC = NULL \/ cpStartDateUTC = NULL \/ cpEndDateUTC = NULL
    THEN NULL
    ELSE LET cnpEndDateUTC == addMonthsUTC(cpEndDateUTC, 6)
         IN  IF cnpEndDateUTC = NULL THEN NULL
             ELSE LET threeYearsPriorToCnpEndUTC == subtractYearsUTC(cnpEndDateUTC, 3)
                  IN  IF threeYearsPriorToCnpEndUTC = NULL THEN NULL
                      ELSE LET relevantFilingWindowStartUTC ==
                                   addUTCDate(threeYearsPriorToCnpEndUTC, 1)
                           IN  IF \/ getTime(lastFilingDateUTC)
                                         < getTime(relevantFilingWindowStartUTC)
                                  \/ getTime(lastFilingDateUTC) > getTime(cnpEndDateUTC)
                               THEN [result |-> PNF_REQUIRED]
                               ELSE IF getTime(cpStartDateUTC) < getTime(APRIL_1_2023_UTC)
                               THEN [nextQuestionIndex |-> 3]
                               ELSE [result |-> NO_PNF_REQUIRED]

\* The dates handed to the Q3 logic: those the user may type, or none.
LastFilingDates == {Date(t) : t \in Near(LastFilingAnchors)} \cup {NULL}

CpStartDates == {Date(t) : t \in Near(CpStartAnchors)} \cup {NULL}

CpEndDates == {Date(t) : t \in Near(CpEndAnchors)} \cup {NULL}

CallDetermineQ3Outcome ==
    /\ call = NULL
    /\ \E lastFilingDateUTC \in LastFilingDates, cpStartDateUTC \in CpStartDates,
          cpEndDateUTC \in CpEndDates :
        /\ call' = Call("determineQ3Outcome",
                        <<lastFilingDateUTC, cpStartDateUTC, cpEndDateUTC>>,
                        determineQ3Outcome(lastFilingDateUTC, cpStartDateUTC,
                                           cpEndDateUTC))
        /\ UNCHANGED <<ctlVars, inputs, errors, questions, resultVisible, resultClass,
                       resultHtml, showResultArgs, alertMsg, lastOp, flow>>

SweepMargin == 30

\* The first and the last day of a sweep of the last filing date over a claim
\* period: from before the CNP start and the stale-filing bound to after the
\* CNP end and the cutover.
SweepFirst(cpStart, cnpEnd) ==
    LET floor == getTime(subtractYearsUTC(cnpEnd, 3))
    IN  (IF getTime(cpStart) < floor THEN getTime(cpStart) ELSE floor) - SweepMargin

SweepLast(cnpEnd) ==
    (IF getTime(cnpEnd) < getTime(APRIL_1_2023_UTC)
     THEN getTime(APRIL_1_2023_UTC) ELSE getTime(cnpEnd)) + SweepMargin

\* The ends of the claim periods of two years that start on an anchor.
TwoYearEnds == {Date(MakeDay(a[1] + 2, a[2] - 1, a[3])) : a \in CpStartAnchors}

\* The if-chain of handleQ3Next for a stored last filing date and a valid
\* claim period, the last filing date being the first day of the sweep. The
\* result is the pair of the returns taken for the day before and for the day.
CallQ3Cascade ==
    /\ call = NULL
    /\ \E cpStart \in CpStartDates \ {NULL},
          cpEnd \in (CpEndDates \ {NULL}) \cup TwoYearEnds :
       \E cnp \in {calculateCNP(cpStart, cpEnd)} :
       \E lastFiling \in {Date(SweepFirst(cpStart, cnp[2]))} :
        /\ isValidClaimPeriod(cpStart, cpEnd)
        /\ call' = Call("Q3Cascade", <<lastFiling, cpStart, cpEnd>>,
                        <<Q3Cascade(lastFiling, cpStart, cnp[1], cnp[2]),
                          Q3Cascade(lastFiling, cpStart, cnp[1], cnp[2])>>)
        /\ UNCHANGED <<ctlVars, inputs, errors, questions, resultVisible, resultClass,
                       resultHtml, showResultArgs, alertMsg, lastOp, flow>>

\* The same claim period with the last filing date one day later.
SweepQ3Cascade ==
    /\ call # NULL
    /\ call.fn = "Q3Cascade"
    /\ \E cpStart \in {call.args[2]}, cpEnd \in {call.args[3]} :
       \E cnp \in {calculateCNP(cpStart, cpEnd)} :
       \E lastFiling \in {Date(getTime(call.args[1]) + 1)} :
        /\ getTime(lastFiling) <= SweepLast(cnp[2])
        /\ call' = Call("Q3Cascade", <<lastFiling, cpStart, cpEnd>>,
                        <<call.result[2],
                          Q3Cascade(lastFiling, cpStart, cnp[1], cnp[2])>>)
        /\ UNCHANGED <<ctlVars, inputs, errors, questions, resultVisible, resultClass,
                       resultHtml, showResultArgs, alertMsg, lastOp, flow>>

\* The texts handed to parseDate: four digits, two digits and two digits, or
\* a text of another form.
ParseYears == {999, 1000, 1900, 2000, 2023, 2024, 9999}

ParseTexts ==
    {isoText(y, m, d) : y \in ParseYears, m \in 0 .. 13, d \in 0 .. 32}
        \cup {emptyText, garbageText}

CallParseDate ==
    /\ call = NULL
    /\ \E value \in ParseTexts :
        /\ call' = Call("parseDate", <<value>>, parseDate(value))
        /\ UNCHANGED <<ctlVars, inputs, errors, questions, resultVisible, resultClass,
                       resultHtml, showResultArgs, alertMsg, lastOp, flow>>

\* The number a relational operator of JavaScript takes of a Date or of null.
valueOf(date) == IF date = NULL THEN 0 ELSE getTime(date)

\* handleQ3Next of the older WidgetController on the stored last filing date,
\* ClaimLogic.APRIL_1_2023_UTC as it is read, and the two dates of the inputs:
\* the return it takes.
Older_handleQ3Next(lastFilingDate_, cpStartDateRaw, cpEndDateRaw, april1_2023) ==
    IF cpStartDateRaw = NULL \/ cpEndDateRaw = NULL THEN "invalidDate"
    ELSE IF ~isValidClaimPeriod(cpStartDateRaw, cpEndDateRaw) THEN "invalidPeriod"
    ELSE LET cnpStart == cpStartDateRaw
             cnpEnd   == addMonthsUTC(cpEndDateRaw, 6)
             threeYearsPriorToCnpEnd == subtractYearsUTC(cnpEnd, 3)
         IN  IF lastFilingDate_ = NULL \/ cnpEnd = NULL \/ threeYearsPriorToCnpEnd = NULL
             THEN "calculationFailed"
             ELSE IF /\ valueOf(lastFilingDate_) < valueOf(cnpStart)
                     /\ valueOf(lastFilingDate_) >= valueOf(april1_2023)
             THEN "before"
             ELSE IF /\ valueOf(lastFilingDate_) > valueOf(cnpEnd)
                     /\ valueOf(lastFilingDate_) < valueOf(april1_2023)
             THEN "afterPreCutover"
             ELSE IF valueOf(cpStartDateRaw) < valueOf(april1_2023) THEN "followUp"
             ELSE "noPNF"

\* ClaimLogic.APRIL_1_2023_UTC as a handler reads it: the static field as it
\* is initialised, or one that has been unset.
CutoverValues == {APRIL_1_2023_UTC, NULL}

CallOlderHandleQ3Next ==
    /\ call = NULL
    /\ \E lastFilingDate_ \in LastFilingDates, cpStartDateRaw \in CpStartDates,
          cpEndDateRaw \in CpEndDates \cup CpStartDates, april1_2023 \in CutoverValues :
        /\ call' = Call("Older_handleQ3Next",
                        <<lastFilingDate_, cpStartDateRaw, cpEndDateRaw, april1_2023>>,
                        Older_handleQ3Next(lastFilingDate_, cpStartDateRaw,
                                           cpEndDateRaw, april1_2023))
        /\ UNCHANGED <<ctlVars, inputs, errors, questions, resultVisible, resultClass,
                       resultHtml, showResultArgs, alertMsg, lastOp, flow>>

\* Date objects as cells of a heap: the heap is the sequence of the time
\* values of the Date objects made so far, a reference is the index of its
\* object, NoRef stands for null. new Date(time) appends a cell, a setter
\* writes the cell of its receiver.
NoRef == 0

NewDate(heap, time) == Append(heap, time)

setUTCMonth(heap, ref, month) ==
    [heap EXCEPT ![ref] = MakeDay(YearMonthDate(heap[ref])[1], month,
                                  YearMonthDate(heap[ref])[3])]

setUTCFullYear(heap, ref, year) ==
    [heap EXCEPT ![ref] = MakeDay(year, YearMonthDate(heap[ref])[2],
                                  YearMonthDate(heap[ref])[3])]

setUTCDate(heap, ref, date) ==
    [heap EXCEPT ![ref] = MakeDay(YearMonthDate(heap[ref])[1],
                                  YearMonthDate(heap[ref])[2], date)]

\* addMonthsUTC setting the month of the Date it is given, without a copy.
Ref_addMonthsUTC_inPlace(heap, utcDate, months) ==
    IF utcDate = NoRef THEN [heap |-> heap, ref |-> NoRef]
    ELSE [heap |-> setUTCMonth(heap, utcDate,
                               YearMonthDate(heap[utcDate])[2] + months),
          ref |-> utcDate]

\* addMonthsUTC on the heap: the heap it leaves and the reference it returns.
Ref_addMonthsUTC(heap, utcDate, months) ==
    IF utcDate = NoRef THEN [heap |-> heap, ref |-> NoRef]
    ELSE LET copied  == NewDate(heap, heap[utcDate])
             newDate == Len(copied)
         IN  [heap |-> setUTCMonth(copied, newDate,
                                   YearMonthDate(copied[newDate])[2] + months),
              ref |-> newDate]

Ref_subtractYearsUTC(heap, utcDate, years) ==
    IF utcDate = NoRef THEN [heap |-> heap, ref |-> NoRef]
    ELSE LET copied  == NewDate(heap, heap[utcDate])
             newDate == Len(copied)
         IN  [heap |-> setUTCFullYear(copied, newDate,
                                      YearMonthDate(copied[newDate])[1] - years),
              ref |-> newDate]

\* ClaimLogic.calculateCNP on the heap: {cnpStart: cpStartDate, cnpEnd}.
Ref_calculateCNP(heap, cpStart, cpEnd) ==
    IF cpStart = NoRef \/ cpEnd = NoRef
    THEN [heap |-> heap, cnpStart |-> NoRef, cnpEnd |-> NoRef]
    ELSE LET added == Ref_addMonthsUTC(heap, cpEnd, 6)
         IN  [heap |-> added.heap, cnpStart |-> cpStart, cnpEnd |-> added.ref]

\* relevantFilingWindowStart of handleQ3Next and of determineQ3Outcome.
Ref_relevantFilingWindowStart(heap, cnpEnd) ==
    LET prior == Ref_subtractYearsUTC(heap, cnpEnd, 3)
        copied == NewDate(prior.heap, prior.heap[prior.ref])
        relevantFilingWindowStart == Len(copied)
    IN  [heap |-> setUTCDate(copied, relevantFilingWindowStart,
                             YearMonthDate(copied[relevantFilingWindowStart])[3] + 1),
         ref |-> relevantFilingWindowStart]

\* The Date objects a handler holds when it computes: the last filing date,
\* the claim period and the cutover.
HeldDates(lastFiling, cpStart, cpEnd) ==
    <<lastFiling, cpStart, cpEnd, getTime(APRIL_1_2023_UTC)>>

HeapAddMonthsUTC ==
    /\ call = NULL
    /\ \E lastFiling \in Near(LastFilingAnchors), cpStart \in Near(CpStartAnchors),
          cpEnd \in Near(CpEndAnchors) :
       \E utcDate \in 1 .. 4, months \in {1, 6, MaxMonths} :
        /\ call' = Call("Ref_addMonthsUTC",
                        <<HeldDates(lastFiling, cpStart, cpEnd), utcDate, months>>,
                        Ref_addMonthsUTC(HeldDates(lastFiling, cpStart, cpEnd),
                                         utcDate, months))
        /\ UNCHANGED <<ctlVars, inputs, errors, questions, resultVisible, resultClass,
                       resultHtml, showResultArgs, alertMsg, lastOp, flow>>

HeapSubtractYearsUTC ==
    /\ call = NULL
    /\ \E lastFiling \in Near(LastFilingAnchors), cpStart \in Near(CpStartAnchors),
          cpEnd \in Near(CpEndAnchors) :
       \E utcDate \in 1 .. 4, years \in {1, 3, MaxYears} :
        /\ call' = Call("Ref_subtractYearsUTC",
                        <<HeldDates(lastFiling, cpStart, cpEnd), utcDate, years>>,
                        Ref_subtractYearsUTC(HeldDates(lastFiling, cpStart, cpEnd),
                                             utcDate, years))
        /\ UNCHANGED <<ctlVars, inputs, errors, questions, resultVisible, resultClass,
                       resultHtml, showResultArgs, alertMsg, lastOp, flow>>

\* The dates handleQ3Next computes: the CNP, then the start of the window.
HeapQ3Dates ==
    /\ call = NULL
    /\ \E lastFiling \in Near(LastFilingAnchors), cpStart \in Near(CpStartAnchors),
          cpEnd \in Near(CpEndAnchors) :
       \E cnp \in {Ref_calculateCNP(HeldDates(lastFiling, cpStart, cpEnd), 2, 3)} :
        /\ call' = Call("Ref_relevantFilingWindowStart",
                        <<HeldDates(lastFiling, cpStart, cpEnd), cnp>>,
                        Ref_relevantFilingWindowStart(cnp.heap, cnp.cnpEnd))
        /\ UNCHANGED <<ctlVars, inputs, errors, questions, resultVisible, resultClass,
                       resultHtml, showResultArgs, alertMsg, lastOp, flow>>

\* WidgetView.showDecisionResult (the second WidgetView of part_001) on a view
\* whose result elements are present: the view it leaves, and whether it
\* threw. A view is the questions that are active, the result classes the
\* result panel has, whether the panel is shown, and the title written to it.
\* Neither result-output--danger nor result-output--success is on the panel.
noClasses == [danger |-> FALSE, success |-> FALSE]

\* With both dates given the message is built with this.formatDate(endOfCNP);
\* a WidgetView has no method formatDate (formatDate is a function imported
\* from dateUtils.js), so the call throws a TypeError before anything is shown.
_showPNFRequired(view, nextClaimPeriod, endOfCNP) ==
    IF nextClaimPeriod # NULL /\ endOfCNP # NULL
    THEN [view EXCEPT !.threw = TRUE]
    ELSE [view EXCEPT !.classes.danger = TRUE,
                      !.html = _generatePNFRequiredHTML(nextClaimPeriod, endOfCNP),
                      !.visible = TRUE]

_showNoPNFRequired(view) ==
    [view EXCEPT !.classes.success = TRUE,
                 !.html = _generateNoPNFRequiredHTML,
                 !.visible = TRUE]

showDecisionResult(view, isPNFRequired, nextClaimPeriod, endOfCNP) ==
    LET hidden  == [view EXCEPT !.questions = hideAllQuestions]
        cleared == [hidden EXCEPT !.classes = noClasses]
    IN  IF isPNFRequired THEN _showPNFRequired(cleared, nextClaimPeriod, endOfCNP)
        ELSE _showNoPNFRequired(cleared)

\* The views showDecisionResult is called on: a question is shown, the result
\* panel is hidden and has the classes an earlier result has left.
ViewBefore(index, danger, success) ==
    [questions |-> [hideAllQuestions EXCEPT ![index] = TRUE],
     classes |-> [danger |-> danger, success |-> success],
     visible |-> FALSE, html |-> noHtml, threw |-> FALSE]

ViewsBefore ==
    {ViewBefore(index, danger, success) :
         index \in QuestionIndexes, danger \in BOOLEAN, success \in BOOLEAN}

CallShowDecisionResult ==
    /\ call = NULL
    /\ \E view \in ViewsBefore, isPNFRequired \in BOOLEAN,
          nextClaimPeriod \in CpStartDates, endOfCNP \in CpEndDates :
        /\ call' = Call("showDecisionResult",
                        <<view, isPNFRequired, nextClaimPeriod, endOfCNP>>,
                        showDecisionResult(view, isPNFRequired, nextClaimPeriod,
                                           endOfCNP))
        /\ UNCHANGED <<ctlVars, inputs, errors, questions, resultVisible, resultClass,
                       resultHtml, showResultArgs, alertMsg, lastOp, flow>>

DatesNext ==
    \/ CallAddMonthsUTC
    \/ CallSubtractYearsUTC
    \/ CallCalculateCNP
    \/ CallIsFilingDateRelevant
    \/ CallDetermineQ3Outcome
    \/ CallQ3Cascade
    \/ SweepQ3Cascade
    \/ CallParseDate
    \/ CallShowDecisionResult
    \/ CallOlderHandleQ3Next
    \/ HeapAddMonthsUTC
    \/ HeapSubtractYearsUTC
    \/ HeapQ3Dates

DatesSpec == Init /\ [][DatesNext]_vars

-----------------------------------------------------------------------------
(* The page of flow.js: a PNFFlow is constructed and initialised on a host, *)
(* and the user answers its questions.                                      *)

MaxOffset == 1

\* The hosts: time-zone offsets in whole hours, either kind of Date parser.
Hosts == [offset : (0 - MaxOffset) .. MaxOffset, rollsOver : BOOLEAN]

widgetVars ==
    <<ctlVars, inputs, errors, questions, resultVisible, resultClass, resultHtml,
      showResultArgs, alertMsg, lastOp>>

\* new PNFFlow().init()
FlowNew ==
    /\ flow = NULL
    /\ \E host \in Hosts : flow' = PNFFlow_init(host)
    /\ UNCHANGED <<widgetVars, call>>

FlowQ1 ==
    /\ flow # NULL
    /\ flow.questions[0]
    /\ \E answer \in Answers : flow' = PNFFlow_handleQ1(flow, answer)
    /\ UNCHANGED <<widgetVars, call>>

FlowQ2 ==
    /\ flow # NULL
    /\ flow.questions[1]
    /\ \E text \in LastFilingTexts :
           flow' = PNFFlow_handleQ2([flow EXCEPT !.inputs.lastFiling = text])
    /\ UNCHANGED <<widgetVars, call>>

FlowQ3 ==
    /\ flow # NULL
    /\ flow.questions[2]
    /\ \E cpStartText \in CpStartTexts, cpEndText \in CpEndTexts :
           PNFFlow_handleQ3([flow EXCEPT !.inputs.cpStart = cpStartText,
                                         !.inputs.cpEnd = cpEndText])
    /\ UNCHANGED <<widgetVars, call>>

FlowQ4 ==
    /\ flow # NULL
    /\ flow.questions[3]
    /\ \E submissionType \in SubmissionTypes :
           flow' = PNFFlow_handleQ4(flow, submissionType)
    /\ UNCHANGED <<widgetVars, call>>

FlowQ5 ==
    /\ flow # NULL
    /\ flow.questions[4]
    /\ \E answer \in Answers : flow' = PNFFlow_handleQ5(flow, answer)
    /\ UNCHANGED <<widgetVars, call>>

FlowNext == FlowNew \/ FlowQ1 \/ FlowQ2 \/ FlowQ3 \/ FlowQ4 \/ FlowQ5

FlowSpec == Init /\ [][FlowNext]_vars

-----------------------------------------------------------------------------
(* What the claims speak of *)

\* The cutover date of the specification: 2023-04-01, UTC midnight.
Cutover == MakeDay(2023, 3, 1)

\* Question index is the one panel shown.
AtQuestion(index) ==
    /\ questions = [hideAllQuestions EXCEPT ![index] = TRUE]
    /\ ~resultVisible

TerminalPNFRequired ==
    /\ resultVisible
    /\ questions = hideAllQuestions
    /\ resultClass = "result-output--danger"
    /\ resultHtml.title = "PNF Required."
    /\ showResultArgs.isPNFRequired

TerminalNoPNFRequired ==
    /\ resultVisible
    /\ questions = hideAllQuestions
    /\ resultClass = "result-output--success"
    /\ resultHtml.title = "No PNF Required."
    /\ ~showResultArgs.isPNFRequired

\* What the user has before them.
Outcome ==
    CASE TerminalPNFRequired -> "PNFRequired"
      [] TerminalNoPNFRequired -> "NoPNFRequired"
      [] AtQuestion(3) -> "NeedsFollowUp"
      [] OTHER -> "none"

\* A text that names a real calendar day (month 1..12, day within the month).
MonthLength(y, m) ==
    IF m = 2 THEN (IF (y % 4 = 0 /\ y % 100 # 0) \/ y % 400 = 0 THEN 29 ELSE 28)
    ELSE IF m \in {4, 6, 9, 11} THEN 30 ELSE 31

RealDay(text) ==
    /\ text.kind = "iso"
    /\ text.m \in 1 .. 12
    /\ text.d \in 1 .. MonthLength(text.y, text.m)

DayOfText(text) == MakeDay(text.y, text.m - 1, text.d)

\* The latest step answered Q3 with two real days, start before end.
ValidPeriodEntered ==
    /\ lastOp.op = "handleQ3Next"
    /\ RealDay(lastOp.args[1])
    /\ RealDay(lastOp.args[2])
    /\ DayOfText(lastOp.args[1]) < DayOfText(lastOp.args[2])

\* The claim period entered at Q3, its CNP end and the filing it is judged with.
Start == DayOfText(lastOp.args[1])

End == DayOfText(lastOp.args[2])

CNPEnd == getTime(addMonthsUTC(Date(End), 6))

Filing == getTime(lastFilingDate)

WindowFloor == getTime(subtractYearsUTC(Date(CNPEnd), 3)) + 1

CutoverDependent == IF Start < Cutover THEN "NeedsFollowUp" ELSE "NoPNFRequired"

WithinRules == {"stale", "withinFollowUp", "withinNoPNF"}

\* C1: after a valid claim period is entered at Q3, a last filing strictly
\* before the CNP start (the claim period start) gives PNFRequired, on either
\* side of the cutover.
C1_BeforeWindow ==
    (ValidPeriodEntered /\ Filing < Start) => Outcome = "PNFRequired"

C1_Witness ==
    /\ ValidPeriodEntered
    /\ Filing < Start
    /\ Filing < Cutover
    /\ Start >= Cutover
    /\ Outcome = "PNFRequired"

\* C2: a last filing after the CNP end and before the cutover gives
\* NoPNFRequired.
C2_AfterWindowPreCutover ==
    (ValidPeriodEntered /\ Filing > CNPEnd /\ Filing < Cutover)
        => Outcome = "NoPNFRequired"

C2_Witness ==
    /\ ValidPeriodEntered
    /\ Filing > CNPEnd
    /\ Filing = Cutover - 1
    /\ Outcome = "NoPNFRequired"

\* C3: a last filing after the CNP end and on or after the cutover gives
\* NeedsFollowUp exactly when the claim period starts before the cutover
\* (2023-04-01), and NoPNFRequired otherwise.
C3_CutoverPartition ==
    /\ getTime(APRIL_1_2023_UTC) = Cutover
    /\ (ValidPeriodEntered /\ Filing > CNPEnd /\ Filing >= Cutover)
           => /\ Outcome \in {"NeedsFollowUp", "NoPNFRequired"}
              /\ Outcome = "NeedsFollowUp" <=> Start < Cutover

C3_Witness ==
    /\ ValidPeriodEntered
    /\ Filing > CNPEnd
    /\ Filing >= Cutover
    /\ Start = Cutover - 1
    /\ End > Cutover
    /\ Outcome = "NeedsFollowUp"

\* C4: a last filing within the CNP gives PNFRequired when it is before the
\* window floor (three years before the CNP end, plus a day), and otherwise
\* NeedsFollowUp or NoPNFRequired as the claim period starts before the
\* cutover or not.
C4_WithinWindow ==
    (ValidPeriodEntered /\ Start <= Filing /\ Filing <= CNPEnd)
        => Outcome = IF Filing < WindowFloor THEN "PNFRequired" ELSE CutoverDependent

C4_Witness ==
    /\ ValidPeriodEntered
    /\ Start <= Filing
    /\ Filing = WindowFloor - 1
    /\ Outcome = "PNFRequired"

\* C5: a last filing on the CNP start or on the CNP end is judged by the
\* within-window branch, never by the before- or after-window rules.
C5_BoundaryInclusive ==
    (ValidPeriodEntered /\ (Filing = Start \/ Filing = CNPEnd))
        => /\ lastOp.rule \in WithinRules
           /\ lastOp.rule = "stale" <=> Filing < WindowFloor

C5_Witness ==
    /\ ValidPeriodEntered
    /\ Filing = CNPEnd
    /\ Filing >= Cutover
    /\ lastOp.rule = "withinFollowUp"

\* C6 as stated: with the CNP end on 2024-06-30 the window floor is
\* 2021-07-01, a filing of 2021-06-30 gives PNFRequired and a filing of
\* 2021-07-01 the cutover-dependent result, for every claim period.
C6_StaleEdgeAsStated ==
    (ValidPeriodEntered /\ CNPEnd = MakeDay(2024, 5, 30))
        => /\ WindowFloor = MakeDay(2021, 6, 1)
           /\ Filing = MakeDay(2021, 5, 30) => Outcome = "PNFRequired"
           /\ Filing = MakeDay(2021, 6, 1) => Outcome = CutoverDependent

\* C6: with the CNP end on 2024-06-30 the window floor is 2021-07-01 and a
\* filing of 2021-06-30 gives PNFRequired; a filing of 2021-07-01 gives the
\* cutover-dependent result when the claim period starts on or before it, and
\* PNFRequired (before-window rule) when the claim period starts after it.
C6_StaleEdge ==
    (ValidPeriodEntered /\ CNPEnd = MakeDay(2024, 5, 30))
        => /\ WindowFloor = MakeDay(2021, 6, 1)
           /\ Filing = MakeDay(2021, 5, 30) => Outcome = "PNFRequired"
           /\ Filing = MakeDay(2021, 6, 1)
                  => Outcome = IF Start <= Filing THEN CutoverDependent
                               ELSE "PNFRequired"

C6_Witness ==
    /\ ValidPeriodEntered
    /\ CNPEnd = MakeDay(2024, 5, 30)
    /\ Filing = MakeDay(2021, 6, 1)
    /\ Start <= Filing
    /\ Outcome = "NeedsFollowUp"

\* C7: the answer "yes" at Q5 leads to Q2 with the stored last filing date,
\* claim period and CNP cleared.
C7_Q5YesClearsState ==
    (lastOp.op = "handleQ5EverClaimed" /\ lastOp.args[1] = "yes")
        => /\ AtQuestion(1)
           /\ lastFilingDate = NULL
           /\ cpStartDate = NULL
           /\ cpEndDate = NULL
           /\ cnpStartDate = NULL
           /\ cnpEndDate = NULL

\* C8: at Q1 the answer "no" ends in PNFRequired with no CNP dates; the
\* answer "yes" clears the stored dates and the three inputs and shows Q2.
C8_Q1Transitions ==
    /\ (lastOp.op = "handleQ1Answer" /\ lastOp.args[1] = "no")
           => /\ TerminalPNFRequired
              /\ showResultArgs.nextClaimPeriod = NULL
              /\ showResultArgs.endOfCNP = NULL
              /\ ~resultHtml.withDates
    /\ (lastOp.op = "handleQ1Answer" /\ lastOp.args[1] = "yes")
           => /\ AtQuestion(1)
              /\ \A v \in {lastFilingDate, cpStartDate, cpEndDate,
                          cnpStartDate, cnpEndDate} : v = NULL
              /\ \A key \in InputKeys : inputs[key] = emptyText

C8_Witness ==
    /\ lastOp.op = "handleQ1Answer"
    /\ lastOp.args[1] = "no"
    /\ TerminalPNFRequired

\* C9: at Q2 a real day is stored as lastFilingDate and Q3 is shown; an
\* empty or invalid text leaves Q2 shown, the stored dates as they were, and
\* no verdict.
C9_Q2Transitions ==
    [][lastOp'.op = "handleQ2Next" =>
          IF RealDay(lastOp'.args[1])
          THEN /\ lastFilingDate' = Date(DayOfText(lastOp'.args[1]))
               /\ AtQuestion(2)'
          ELSE /\ UNCHANGED ctlVars
               /\ AtQuestion(1)'
               /\ UNCHANGED <<resultVisible, resultClass, resultHtml, showResultArgs>>
               /\ errors'.lastFiling # ""]_vars

C9_Witness ==
    /\ lastOp.op = "handleQ2Next"
    /\ lastOp.args[1] = isoText(2023, 2, 30)
    /\ AtQuestion(1)
    /\ lastFilingDate # NULL
    /\ cnpEndDate # NULL

\* C10: at Q3 a valid claim period is stored and judged; PNFRequired and
\* NoPNFRequired end the flow with that verdict and the CNP start (the claim
\* period start) and the CNP end (the claim period end plus six months)
\* handed to the result; NeedsFollowUp shows Q4 and no verdict.
C10_Q3Transitions ==
    ValidPeriodEntered
        => /\ cpStartDate = Date(Start)
           /\ cpEndDate = Date(End)
           /\ lastOp.rule \in PNFRequiredRules \cup NoPNFRequiredRules \cup FollowUpRules
           /\ lastOp.rule \in PNFRequiredRules \cup NoPNFRequiredRules
                  => /\ IF lastOp.rule \in PNFRequiredRules
                        THEN TerminalPNFRequired ELSE TerminalNoPNFRequired
                     /\ showResultArgs.nextClaimPeriod = Date(Start)
                     /\ showResultArgs.endOfCNP = Date(CNPEnd)
           /\ lastOp.rule \in FollowUpRules => AtQuestion(3)

C10_Witness ==
    /\ ValidPeriodEntered
    /\ TerminalNoPNFRequired
    /\ showResultArgs.endOfCNP = Date(MakeDay(2024, 5, 30))

\* C11: a claim period entered at Q3 with start on or after end (start equal
\* to end included) leaves Q3 shown, shows no verdict and no follow-up
\* question, raises the alert on the order of the period, and leaves the
\* stored claim period and CNP as they were.
C11_InvalidPeriodAtQ3 ==
    [][(/\ lastOp'.op = "handleQ3Next"
        /\ RealDay(lastOp'.args[1])
        /\ RealDay(lastOp'.args[2])
        /\ DayOfText(lastOp'.args[1]) >= DayOfText(lastOp'.args[2]))
          => /\ AtQuestion(2)'
             /\ alertMsg' = "periodOrder"
             /\ lastOp'.rule = "invalidPeriod"
             /\ UNCHANGED <<cpStartDate, cpEndDate, cnpStartDate, cnpEndDate>>
             /\ UNCHANGED <<resultVisible, resultClass, resultHtml, showResultArgs>>]_vars

C11_Witness ==
    /\ lastOp.op = "handleQ3Next"
    /\ RealDay(lastOp.args[1])
    /\ RealDay(lastOp.args[2])
    /\ Start = End
    /\ AtQuestion(2)
    /\ alertMsg = "periodOrder"

\* C12: at Q4 the answer "original" ends in NoPNFRequired and the answer
\* "amended" shows Q5; no answer at Q4 ends in PNFRequired.
C12_Q4Transitions ==
    lastOp.op = "handleQ4Submission"
        => /\ lastOp.args[1] = "original" => TerminalNoPNFRequired
           /\ lastOp.args[1] = "amended" => AtQuestion(4)
           /\ ~TerminalPNFRequired
           /\ ~(resultVisible /\ showResultArgs.isPNFRequired)

C12_Witness ==
    /\ lastOp.op = "handleQ4Submission"
    /\ lastOp.args[1] = "original"
    /\ TerminalNoPNFRequired

\* C13: at Q5 the answer "no" ends in PNFRequired, and Q5 comes to be shown
\* only by the answer "amended" at Q4.
C13_Q5No ==
    [][/\ (lastOp'.op = "handleQ5EverClaimed" /\ lastOp'.args[1] = "no")
            => TerminalPNFRequired'
       /\ (questions'[4] /\ ~questions[4])
            => /\ lastOp'.op = "handleQ4Submission"
               /\ lastOp'.args[1] = "amended"
               /\ AtQuestion(3)]_vars

C13_Witness ==
    /\ lastOp.op = "handleQ5EverClaimed"
    /\ lastOp.args[1] = "no"
    /\ TerminalPNFRequired

\* C14: once a verdict is shown every question container is hidden, and no
\* handler runs any more: the verdict stays and no question is shown again.
C14_TerminalFinal ==
    [][/\ ~resultVisible
       /\ resultVisible' => /\ questions' = hideAllQuestions
                            /\ (TerminalPNFRequired \/ TerminalNoPNFRequired)']_vars

C14_Witness ==
    /\ lastOp.op = "handleQ3Next"
    /\ lastOp.rule = "stale"
    /\ TerminalPNFRequired
    /\ \A i \in QuestionIndexes : ~questions[i]

\* The latest call is one of function fn.
CallOf(fn) == call # NULL /\ call.fn = fn

\* The day n months after day t by native rollover: the same day of the
\* target month, or, when the target month has no such day, the excess days
\* counted into the month that follows it.
RolledOver(t, n) ==
    LET f     == YearMonthDate(t)
        total == f[1] * 12 + f[2] + n
        y     == total \div 12
        m     == (total % 12) + 1
    IN  IF f[3] <= MonthLength(y, m)
        THEN DayOfText(isoText(y, m, f[3]))
        ELSE DayOfText(isoText(IF m = 12 THEN y + 1 ELSE y,
                               IF m = 12 THEN 1 ELSE m + 1,
                               f[3] - MonthLength(y, m)))

\* C15: the CNP computation returns no CNP for every pair of valid dates
\* with start on or after end.
C15_CNPRejectsInvalidPeriod ==
    (/\ CallOf("calculateCNP")
     /\ call.args[1] # NULL
     /\ call.args[2] # NULL
     /\ getTime(call.args[1]) >= getTime(call.args[2]))
        => call.result = NULL

\* C16: for every valid claim period the CNP starts on the start of the
\* claim period and ends six months (native rollover) after its end; the
\* period 2023-01-15..2023-06-30 gives the CNP end 2023-12-30.
C16_CNPDerivation ==
    (/\ CallOf("calculateCNP")
     /\ call.args[1] # NULL
     /\ call.args[2] # NULL
     /\ getTime(call.args[1]) < getTime(call.args[2]))
        => /\ call.result # NULL
           /\ call.result[1] = call.args[1]
           /\ call.result[2] = Date(RolledOver(getTime(call.args[2]), 6))
           /\ call.args = <<Date(MakeDay(2023, 0, 15)), Date(MakeDay(2023, 5, 30))>>
                  => call.result[2] = Date(MakeDay(2023, 11, 30))

C16_Witness ==
    /\ CallOf("calculateCNP")
    /\ call.args = <<Date(MakeDay(2023, 0, 15)), Date(MakeDay(2023, 5, 30))>>
    /\ call.result = <<Date(MakeDay(2023, 0, 15)), Date(MakeDay(2023, 11, 30))>>

\* C17 as stated: addMonths(2024-02-29, 12) is 2025-02-28.
C17_LeapYearMonthAdditionAsStated ==
    (CallOf("addMonthsUTC") /\ call.args = <<Date(MakeDay(2024, 1, 29)), 12>>)
        => call.result = Date(MakeDay(2025, 1, 28))

\* C17: addMonths(2024-02-29, 12) is 2025-03-01: the 29th day of February
\* 2025, a month of 28 days, is the first of March.
C17_LeapYearMonthAddition ==
    (CallOf("addMonthsUTC") /\ call.args = <<Date(MakeDay(2024, 1, 29)), 12>>)
        => /\ call.result = Date(MakeDay(2025, 2, 1))
           /\ YearMonthDate(getTime(call.result)) = <<2025, 2, 1>>

C17_Witness ==
    /\ CallOf("addMonthsUTC")
    /\ call.args = <<Date(MakeDay(2024, 1, 29)), 12>>
    /\ call.result = Date(MakeDay(2025, 1, 28) + 1)

\* C18 as stated: subtractYears(d, n) has the month and day of d in the year
\* of d less n, but Feb 29 becomes Feb 28 when that year is no leap year.
C18_SubtractYearsAsStated ==
    (CallOf("subtractYearsUTC") /\ call.args[1] # NULL)
        => LET f == YearMonthDate(getTime(call.args[1]))
               y == f[1] - call.args[2]
           IN  YearMonthDate(getTime(call.result)) =
                   IF f[2] = 1 /\ f[3] = 29 /\ MonthLength(y, 2) = 28
                   THEN <<y, 1, 28>>
                   ELSE <<y, f[2], f[3]>>

\* C18: subtractYears(d, n) has the month and day of d in the year of d less
\* n, but Feb 29 becomes Mar 1 when that year is no leap year.
C18_SubtractYears ==
    (CallOf("subtractYearsUTC") /\ call.args[1] # NULL)
        => LET f == YearMonthDate(getTime(call.args[1]))
               y == f[1] - call.args[2]
           IN  YearMonthDate(getTime(call.result)) =
                   IF f[2] = 1 /\ f[3] = 29 /\ MonthLength(y, 2) = 28
                   THEN <<y, 2, 1>>
                   ELSE <<y, f[2], f[3]>>

C18_Witness ==
    /\ CallOf("subtractYearsUTC")
    /\ call.args = <<Date(MakeDay(2024, 1, 29)), 3>>
    /\ YearMonthDate(getTime(call.result)) = <<2021, 2, 1>>

\* C19: addMonths gives the same day of the target month when the month has
\* that day, and otherwise counts the excess days into the following month:
\* Aug 31 plus six months is Mar 3 after a February of 28 days and Mar 2
\* after one of 29, never the last day of February.
C19_AddMonthsRollover ==
    (CallOf("addMonthsUTC") /\ call.args[1] # NULL)
        => LET t      == getTime(call.args[1])
               n      == call.args[2]
               f      == YearMonthDate(t)
               r      == YearMonthDate(getTime(call.result))
               target == (f[1] * 12 + f[2] + n) % 12
           IN  /\ getTime(call.result) = RolledOver(t, n)
               /\ r[2] = target => r[3] = f[3]
               /\ r[2] # target => r[3] < f[3] /\ r[2] = (target + 1) % 12
               /\ (f[2] = 7 /\ f[3] = 31 /\ n = 6)
                      => r = <<f[1] + 1, 2, IF MonthLength(f[1] + 1, 2) = 28 THEN 3 ELSE 2>>

C19_Witness ==
    /\ CallOf("addMonthsUTC")
    /\ call.args = <<Date(MakeDay(2023, 7, 31)), 6>>
    /\ YearMonthDate(getTime(call.result)) = <<2024, 2, 2>>

\* C20: the cutover is 2023-04-01, UTC midnight, on every host, in
\* ClaimLogic.APRIL_1_2023_UTC and in the APRIL_1_2023_UTC of every PNFFlow.
C20_CutoverConstant ==
    /\ APRIL_1_2023_UTC = Date(Cutover)
    /\ flow # NULL => flow.APRIL_1_2023_UTC = Date(Cutover)


\* The day n years before day t as setUTCFullYear gives it: the same month
\* and day, Feb 29 being Mar 1 in a year that is no leap year.
YearsBefore(t, n) ==
    LET f == YearMonthDate(t)
        y == f[1] - n
    IN  IF f[2] = 1 /\ f[3] = 29 /\ MonthLength(y, 2) = 28
        THEN DayOfText(isoText(y, 3, 1))
        ELSE DayOfText(isoText(y, f[2] + 1, f[3]))

\* C21: isFilingDateRelevant(filingDate, today) is true exactly when the
\* filing date plus six months is on or after today and the filing date is on
\* or after today less three years; it is false when an argument is missing.
C21_FilingRelevant ==
    CallOf("isFilingDateRelevant")
        => IF call.args[1] = NULL \/ call.args[2] = NULL
           THEN call.result = FALSE
           ELSE call.result =
                    (/\ RolledOver(getTime(call.args[1]), 6) >= getTime(call.args[2])
                     /\ getTime(call.args[1]) >= YearsBefore(getTime(call.args[2]), 3))

C21_Witness ==
    /\ CallOf("isFilingDateRelevant")
    /\ call.args = <<Date(MakeDay(2023, 0, 15)), Date(MakeDay(2023, 6, 15))>>
    /\ call.result = TRUE


\* The latest call is one of fn on a last filing date and a claim period of
\* valid dates, start before end.
CallOnValidPeriod(fn) ==
    /\ CallOf(fn)
    /\ call.args[1] # NULL
    /\ call.args[2] # NULL
    /\ call.args[3] # NULL
    /\ getTime(call.args[2]) < getTime(call.args[3])

\* The windowFloor of the claim period of the latest call: three years before
\* its CNP end, plus one day.
CallWindowFloor == YearsBefore(RolledOver(getTime(call.args[3]), 6), 3) + 1

\* C22: determineQ3Outcome gives PNF Required exactly when the last filing is
\* before the windowFloor, and otherwise the follow-up question for a claim
\* period starting before the cutover and No PNF Required for one starting on
\* or after it; nothing else about the last filing matters.
C22_SecondaryOutcome ==
    CallOnValidPeriod("determineQ3Outcome")
        => call.result =
               IF getTime(call.args[1]) < CallWindowFloor
               THEN [result |-> "PNF Required"]
               ELSE IF getTime(call.args[2]) < Cutover
               THEN [nextQuestionIndex |-> 3]
               ELSE [result |-> "No PNF Required"]


\* The outcome of the cascade of handleQ3Next on the arguments of the latest
\* call (a last filing date and a valid claim period).
DecideOutcome ==
    LET cnp  == calculateCNP(call.args[2], call.args[3])
        rule == Q3Cascade(call.args[1], call.args[2], cnp[1], cnp[2])
    IN  IF rule \in PNFRequiredRules THEN "PNFRequired"
        ELSE IF rule \in NoPNFRequiredRules THEN "NoPNFRequired"
        ELSE IF rule \in FollowUpRules THEN "NeedsFollowUp"
        ELSE "none"

\* The outcome a return value of determineQ3Outcome stands for.
SecondaryOutcome ==
    IF call.result = NULL THEN "none"
    ELSE IF call.result = [result |-> "PNF Required"] THEN "PNFRequired"
    ELSE IF call.result = [result |-> "No PNF Required"] THEN "NoPNFRequired"
    ELSE "NeedsFollowUp"

\* The documented test cases: the last filing on the CNP start or the CNP
\* end; the stale-filing edge of a CNP ending 2024-06-30; the last filing
\* after the CNP end and on or after the cutover, for a claim period starting
\* 2023-03-31 or 2023-04-01.
DocumentedCase ==
    LET filing == getTime(call.args[1])
        start  == getTime(call.args[2])
        cnpEnd == RolledOver(getTime(call.args[3]), 6)
    IN  \/ filing = start
        \/ filing = cnpEnd
        \/ /\ cnpEnd = MakeDay(2024, 5, 30)
           /\ filing \in {MakeDay(2021, 5, 30), MakeDay(2021, 6, 1)}
        \/ /\ filing > cnpEnd
           /\ filing >= Cutover
           /\ start \in {MakeDay(2023, 2, 31), MakeDay(2023, 3, 1)}

\* C23: on every documented test case determineQ3Outcome gives the outcome
\* the cascade of handleQ3Next gives.
C23_DocumentedCasesAgree ==
    (CallOnValidPeriod("determineQ3Outcome") /\ DocumentedCase)
        => SecondaryOutcome = DecideOutcome


\* The outcome a rule of the if-chain of handleQ3Next stands for.
OutcomeOfRule(rule) ==
    IF rule \in PNFRequiredRules THEN "PNFRequired"
    ELSE IF rule \in NoPNFRequiredRules THEN "NoPNFRequired"
    ELSE IF rule \in FollowUpRules THEN "NeedsFollowUp"
    ELSE "none"

\* The CNP end of the claim period of the latest call.
CallCNPEnd == RolledOver(getTime(call.args[3]), 6)

\* The outcome of the claim period of the latest call that depends on the
\* cutover alone.
CallCutoverDependent ==
    IF getTime(call.args[2]) < Cutover THEN "NeedsFollowUp" ELSE "NoPNFRequired"

\* The outcome of the region the last filing date of the latest call lies in.
RegionOutcome ==
    LET filing == getTime(call.args[1])
    IN  IF filing < getTime(call.args[2]) THEN "PNFRequired"
        ELSE IF filing <= CallCNPEnd
        THEN (IF filing < CallWindowFloor THEN "PNFRequired" ELSE CallCutoverDependent)
        ELSE (IF filing < Cutover THEN "NoPNFRequired" ELSE CallCutoverDependent)

\* C24: as the last filing date of a fixed valid claim period moves on day by
\* day, the outcome is PNFRequired before the CNP start, the within-window
\* outcome on the CNP, and the after-window outcome after the CNP end; from
\* one day to the next it changes only on the CNP start, the windowFloor, the
\* day after the CNP end or the cutover.
C24_MonotonicSweep ==
    CallOf("Q3Cascade")
        => /\ OutcomeOfRule(call.result[2]) = RegionOutcome
           /\ OutcomeOfRule(call.result[1]) # OutcomeOfRule(call.result[2])
                => getTime(call.args[1])
                       \in {getTime(call.args[2]), CallWindowFloor,
                            CallCNPEnd + 1, Cutover}

C24_Witness ==
    /\ CallOf("Q3Cascade")
    /\ getTime(call.args[2]) < CallWindowFloor
    /\ getTime(call.args[1]) = CallWindowFloor
    /\ getTime(call.args[1]) < Cutover
    /\ call.result = <<"stale", "withinFollowUp">>


\* The latest call is parseDate on a text of the form YYYY-MM-DD.
ParsedTriple == CallOf("parseDate") /\ call.args[1].kind = "iso"

\* C25 as stated: a year-month-day triple is accepted exactly when the month
\* is in 1..12 and the day is in 1..L, L the length of the month.
C25_DateValidityAsStated ==
    ParsedTriple
        => (call.result # NULL
               <=> /\ call.args[1].m \in 1 .. 12
                   /\ call.args[1].d \in 1 .. MonthLength(call.args[1].y, call.args[1].m))

\* C25: a year-month-day triple is accepted, as the local Date of that day,
\* exactly when the year is in 1000..9999, the month is in 1..12 and the day
\* is in 1..L, L the length of the month; every other triple gives null.
C25_DateValidity ==
    ParsedTriple
        => IF /\ call.args[1].y \in 1000 .. 9999
              /\ call.args[1].m \in 1 .. 12
              /\ call.args[1].d \in 1 .. MonthLength(call.args[1].y, call.args[1].m)
           THEN call.result = <<call.args[1].y, call.args[1].m - 1, call.args[1].d>>
           ELSE call.result = NULL

C25_Witness ==
    /\ ParsedTriple
    /\ call.args[1] = isoText(2000, 2, 29)
    /\ call.result = <<2000, 1, 29>>


\* C26: the stored CNP matches the stored claim period in every state: the
\* one is set exactly when the other is, with cnpStart = cpStart and cnpEnd
\* six months after cpEnd.
C26_CNPMatchesPeriod ==
    /\ (cpStartDate = NULL) = (cnpStartDate = NULL)
    /\ (cpEndDate = NULL) = (cnpEndDate = NULL)
    /\ (cpStartDate = NULL) = (cpEndDate = NULL)
    /\ cpStartDate # NULL
          => /\ cnpStartDate = cpStartDate
             /\ cnpEndDate = Date(RolledOver(getTime(cpEndDate), 6))

\* Q3 has stored a claim period ending on the 31st of August, and its CNP.
C26_Witness ==
    /\ lastOp.op = "handleQ3Next"
    /\ cpStartDate # NULL
    /\ YearMonthDate(getTime(cpEndDate)) = <<2019, 7, 31>>
    /\ cnpStartDate = cpStartDate
    /\ cnpEndDate = Date(MakeDay(2020, 2, 2))


\* C27: in every state in which a claim period is stored, its start is
\* strictly before its end.
C27_StoredPeriodOrdered ==
    (cpStartDate # NULL \/ cpEndDate # NULL)
        => /\ cpStartDate # NULL
           /\ cpEndDate # NULL
           /\ getTime(cpStartDate) < getTime(cpEndDate)

\* The shortest claim period is stored: it ends the day after it starts.
C27_Witness ==
    /\ lastOp.op = "handleQ3Next"
    /\ cpStartDate # NULL
    /\ getTime(cpEndDate) = getTime(cpStartDate) + 1


\* The returns of the older handleQ3Next that show a verdict or the follow-up
\* question.
OlderVerdictRules == {"before", "afterPreCutover", "followUp", "noPNF"}

\* C28: when the cutover constant is unset and Q3 is answered with a stored
\* last filing date and a valid claim period, no verdict and no follow-up
\* question is shown.
C28_NoVerdictWithoutCutover ==
    (CallOnValidPeriod("Older_handleQ3Next") /\ call.args[4] = NULL)
        => call.result \notin OlderVerdictRules


\* The outcome a return of the older handleQ3Next stands for.
OlderOutcome ==
    CASE call.result = "before" -> "PNFRequired"
      [] call.result \in {"afterPreCutover", "noPNF"} -> "NoPNFRequired"
      [] call.result = "followUp" -> "NeedsFollowUp"
      [] OTHER -> "none"

\* C30: for every last filing date and valid claim period the older
\* handleQ3Next and the newer one give the same outcome.
C30_ControllersAgree ==
    (CallOnValidPeriod("Older_handleQ3Next") /\ call.args[4] # NULL)
        => OlderOutcome = DecideOutcome


\* Every Date object of heap before is in heap after, with its time value.
Kept(before, after) ==
    /\ Len(after) >= Len(before)
    /\ \A ref \in 1 .. Len(before) : after[ref] = before[ref]

\* C29: addMonthsUTC, subtractYearsUTC, the CNP computation and the window
\* start computation leave every Date handed to them (last filing date, claim
\* period, CNP end, cutover) with its time value, and return a Date that was
\* not there before, with the value computed.
C29_InputsNotMutated ==
    /\ CallOf("Ref_addMonthsUTC")
          => /\ Kept(call.args[1], call.result.heap)
             /\ call.result.ref > Len(call.args[1])
             /\ call.result.heap[call.result.ref]
                    = RolledOver(call.args[1][call.args[2]], call.args[3])
    /\ CallOf("Ref_subtractYearsUTC")
          => /\ Kept(call.args[1], call.result.heap)
             /\ call.result.ref > Len(call.args[1])
             /\ call.result.heap[call.result.ref]
                    = YearsBefore(call.args[1][call.args[2]], call.args[3])
    /\ CallOf("Ref_relevantFilingWindowStart")
          => /\ Kept(call.args[1], call.args[2].heap)
             /\ call.args[2].cnpEnd > Len(call.args[1])
             /\ call.args[2].heap[call.args[2].cnpEnd] = RolledOver(call.args[1][3], 6)
             /\ Kept(call.args[2].heap, call.result.heap)
             /\ call.result.ref > Len(call.args[2].heap)
             /\ call.result.heap[call.result.ref]
                    = YearsBefore(RolledOver(call.args[1][3], 6), 3) + 1

\* The window start of a claim period ending 2023-12-30 has been computed:
\* the claim period end and the CNP end are what they were.
C29_Witness ==
    /\ CallOf("Ref_relevantFilingWindowStart")
    /\ call.args[1][3] = MakeDay(2023, 11, 30)
    /\ call.result.heap[3] = MakeDay(2023, 11, 30)
    /\ call.result.heap[call.args[2].cnpEnd] = MakeDay(2024, 5, 30)
    /\ call.result.heap[call.result.ref] = MakeDay(2021, 6, 1)


\* The last filing date of the latest call lies within the CNP of its claim
\* period, the two ends included.
CallWithinWindow ==
    /\ getTime(call.args[1]) >= getTime(call.args[2])
    /\ getTime(call.args[1]) <= CallCNPEnd

\* C31: for every last filing date within the CNP of a valid claim period,
\* determineQ3Outcome gives the outcome the cascade of handleQ3Next gives.
C31_AgreeWithinWindow ==
    (CallOnValidPeriod("determineQ3Outcome") /\ CallWithinWindow)
        => SecondaryOutcome = DecideOutcome

\* A stale filing within the CNP: both give PNF Required.
C31_Witness ==
    /\ CallOnValidPeriod("determineQ3Outcome")
    /\ CallWithinWindow
    /\ getTime(call.args[1]) < CallWindowFloor
    /\ SecondaryOutcome = "PNFRequired"
    /\ DecideOutcome = "PNFRequired"


\* The number of outcomes the user has before them.
OutcomesShown ==
    Cardinality({o \in {"PNFRequired", "NoPNFRequired", "NeedsFollowUp"} :
                    \/ o = "PNFRequired" /\ TerminalPNFRequired
                    \/ o = "NoPNFRequired" /\ TerminalNoPNFRequired
                    \/ o = "NeedsFollowUp" /\ AtQuestion(3)})

\* C32: after Q3 is answered with a valid claim period (a last filing date
\* being stored and the cutover set), exactly one of PNFRequired,
\* NoPNFRequired and Q4 is before the user, by exactly one kind of rule, and
\* no error is signalled.
C32_CascadeTotalExclusive ==
    ValidPeriodEntered
        => /\ OutcomesShown = 1
           /\ alertMsg = "none"
           /\ lastFilingDate # NULL
           /\ lastOp.rule \in PNFRequiredRules \cup NoPNFRequiredRules \cup FollowUpRules
           /\ (lastOp.rule \in PNFRequiredRules) = TerminalPNFRequired
           /\ (lastOp.rule \in NoPNFRequiredRules) = TerminalNoPNFRequired
           /\ (lastOp.rule \in FollowUpRules) = AtQuestion(3)

\* The last rule of the cascade has given the verdict.
C32_Witness ==
    /\ ValidPeriodEntered
    /\ lastOp.rule = "withinNoPNF"
    /\ OutcomesShown = 1
    /\ TerminalNoPNFRequired


\* The claim period of the latest call is of at most two years: its end is
\* not after the day two years after its start.
CallPeriodAtMostTwoYears ==
    YearsBefore(getTime(call.args[3]), 2) <= getTime(call.args[2])

\* C33: the cascade takes the stale-filing rule only for a last filing from
\* the CNP start on and before the windowFloor, hence only when the claim
\* period starts before the windowFloor; for a claim period of at most two
\* years every PNFRequired comes from the before-window rule.
C33_StaleBranchDead ==
    CallOf("Q3Cascade")
        => /\ call.result[2] = "stale"
                => /\ getTime(call.args[1]) >= getTime(call.args[2])
                   /\ getTime(call.args[1]) < CallWindowFloor
                   /\ getTime(call.args[2]) < CallWindowFloor
           /\ (CallPeriodAtMostTwoYears
                  /\ OutcomeOfRule(call.result[2]) = "PNFRequired")
                => call.result[2] = "before"

\* The stale-filing rule is taken on the one day a claim period gives it.
C33_Witness ==
    /\ CallOf("Q3Cascade")
    /\ call.result[2] = "stale"
    /\ getTime(call.args[1]) = getTime(call.args[2])
    /\ getTime(call.args[2]) + 1 = CallWindowFloor


\* C34: for every pair of valid dates isFilingDateRelevant(filingDate, today)
\* is true exactly when the filing date plus six months is on or after today:
\* the three-year bound never decides.
C34_ThreeYearBoundIdle ==
    (CallOf("isFilingDateRelevant") /\ call.args[1] # NULL /\ call.args[2] # NULL)
        => /\ call.result = (RolledOver(getTime(call.args[1]), 6) >= getTime(call.args[2]))
           /\ RolledOver(getTime(call.args[1]), 6) >= getTime(call.args[2])
                => getTime(call.args[1]) >= YearsBefore(getTime(call.args[2]), 3)

\* A filing the day before today less three years: the six-month bound has
\* already refused it.
C34_Witness ==
    /\ CallOf("isFilingDateRelevant")
    /\ call.args[1] # NULL
    /\ call.args[2] # NULL
    /\ getTime(call.args[1]) + 1 = YearsBefore(getTime(call.args[2]), 3)
    /\ RolledOver(getTime(call.args[1]), 6) < getTime(call.args[2])
    /\ call.result = FALSE


\* C35: in every state in which Q4 or Q5 is shown, a last filing date is
\* stored and the stored claim period starts strictly before the cutover.
C35_FollowUpImpliesPreCutover ==
    (AtQuestion(3) \/ AtQuestion(4))
        => /\ lastFilingDate # NULL
           /\ cpStartDate # NULL
           /\ getTime(cpStartDate) < Cutover

\* Q5 is shown for a claim period that starts the day before the cutover.
C35_Witness ==
    /\ AtQuestion(4)
    /\ lastFilingDate # NULL
    /\ cpStartDate = Date(Cutover - 1)


\* C36: in every state in which Q3 is shown a last filing date is stored and
\* the claim period and the CNP are cleared; handleQ3Next never takes its
\* return for a missing last filing date.
C36_Q3HasLastFiling ==
    /\ AtQuestion(2)
          => /\ lastFilingDate # NULL
             /\ cpStartDate = NULL
             /\ cpEndDate = NULL
             /\ cnpStartDate = NULL
             /\ cnpEndDate = NULL
    /\ lastOp.op = "handleQ3Next" => lastOp.rule # "missingLastFiling"
    /\ alertMsg # "lastFilingMissing"

\* Q3 is still shown after it has refused a claim period.
C36_Witness ==
    /\ AtQuestion(2)
    /\ lastOp.op = "handleQ3Next"
    /\ lastOp.rule = "invalidPeriod"
    /\ lastFilingDate # NULL
    /\ cpStartDate = NULL


\* How far the walkthrough has come: the index of the question shown, and 5
\* once a verdict is shown.
Rank ==
    IF resultVisible THEN 5
    ELSE IF \E i \in QuestionIndexes : AtQuestion(i)
    THEN CHOOSE i \in QuestionIndexes : AtQuestion(i)
    ELSE 0 - 1

\* The latest answer was a valid one: a token of the question, a valid date at
\* Q2, a valid claim period at Q3.
ValidAnswer ==
    CASE lastOp.op = "handleQ1Answer" -> lastOp.args[1] \in {"yes", "no"}
      [] lastOp.op = "handleQ2Next" -> lastOp.rule = "stored"
      [] lastOp.op = "handleQ3Next" -> ValidPeriodEntered
      [] lastOp.op = "handleQ4Submission" -> lastOp.args[1] \in {"original", "amended"}
      [] lastOp.op = "handleQ5EverClaimed" -> lastOp.args[1] \in {"yes", "no"}
      [] OTHER -> FALSE

Q5Yes == lastOp.op = "handleQ5EverClaimed" /\ lastOp.args[1] = "yes"

\* C37: a handler takes the walkthrough back only on "yes" at Q5, and then to
\* Q2; every other valid answer takes it on to a later question or to the
\* verdict, so that a verdict is reached after at most five such answers; and
\* Q1 is never shown again once it is left.
C37_BoundedWalkthrough ==
    [][/\ Rank \in 0 .. 4
       /\ Rank' \in 0 .. 5
       /\ Rank' < Rank => (Q5Yes' /\ Rank = 4 /\ AtQuestion(1)')
       /\ (ValidAnswer' /\ ~Q5Yes') => Rank' > Rank
       /\ ~AtQuestion(0) => ~AtQuestion(0)']_vars

\* The fifth answer of a walkthrough has given the verdict.
C37_Witness ==
    /\ lastOp.op = "handleQ5EverClaimed"
    /\ lastOp.args[1] = "no"
    /\ Rank = 5
    /\ lastFilingDate # NULL
    /\ cpStartDate # NULL
    /\ getTime(cpStartDate) < Cutover


\* The question containers that are active, of the WidgetView and of a PNFFlow.
ActiveQuestions == {i \in QuestionIndexes : questions[i]}

FlowActiveQuestions == {i \in QuestionIndexes : flow.questions[i]}

\* C38: in every state exactly one panel is visible: one question container
\* is active and the result panel is hidden, or no question container is
\* active and the result panel is shown.
C38_OnePanelVisible ==
    /\ \/ Cardinality(ActiveQuestions) = 1 /\ ~resultVisible
       \/ ActiveQuestions = {} /\ resultVisible
    /\ flow # NULL
          => \/ /\ Cardinality(FlowActiveQuestions) = 1
                /\ flow.questions[flow.currentQuestionIndex]
                /\ flow.resultEl = "none"
             \/ FlowActiveQuestions = {} /\ flow.resultEl = "block"

\* Q5 alone is shown.
C38_Witness ==
    /\ ActiveQuestions = {4}
    /\ ~resultVisible
    /\ lastOp.op = "handleQ4Submission"


\* C39: at Q1 and at Q5 every answer other than the string "yes", a missing
\* one included, ends in PNFRequired; no answer leaves Q1 or Q5 shown.
C39_NonYesIsPNFRequired ==
    /\ (lastOp.op \in {"handleQ1Answer", "handleQ5EverClaimed"} /\ lastOp.args[1] # "yes")
          => TerminalPNFRequired
    /\ lastOp.op = "handleQ1Answer" => ~questions[0]
    /\ lastOp.op = "handleQ5EverClaimed" => ~questions[4]

\* Q5 was answered with no token, and with a token that is not the string "yes".
C39_Witness ==
    /\ lastOp.op = "handleQ5EverClaimed"
    /\ lastOp.args[1] \in {"undefined", "Yes"}
    /\ TerminalPNFRequired


\* C40: showDecisionResult completes for every isPNFRequired and every
\* nextClaimPeriod and endOfCNP, each a date or null; it shows the result
\* panel with exactly one of the two result classes, the danger class exactly
\* when isPNFRequired.
C40_ShowDecisionResultNeverFails ==
    CallOf("showDecisionResult")
        => /\ ~call.result.threw
           /\ call.result.visible
           /\ call.result.questions = hideAllQuestions
           /\ call.result.classes.danger = call.args[2]
           /\ call.result.classes.success = ~call.args[2]

=============================================================================
